---- MODULE Spec2Model ----
(***************************************************************************)
(* kiro-forge: the resource merge engine of the agent exporter             *)
(* (src/src/kiroforge/exporter.py) together with the power-reference       *)
(* normalisation of the loader (src/src/kiroforge/parser.py).              *)
(*                                                                         *)
(* The agent directory on disk (prompt file, power directories, POWER.md,  *)
(* steering files, tools files) and the agent's power references are the   *)
(* inputs; _merge_power_resources and export_agent_to_kiro_json are the    *)
(* operations.  Python dicts are functions with a finite domain, lists are *)
(* sequences, and an exception is the name of its class.                   *)
(***************************************************************************)
EXTENDS Integers, Sequences, FiniteSets, TLC

VARIABLES
    fs,          \* the power directories below the agent directory: path -> directory
    prompt,      \* state of the agent's prompt file: "ok", "missing", "unreadable"
    powers,      \* spec.powers / power_refs: the ordered power references
    pc,          \* "idle" before the call, "loop" inside the loop over the references,
                 \* then the name of the operation that ended
    idx,         \* number of power references the loop has gone through
    acc,         \* the accumulators of the merge call (its local variables)
    raised,      \* exception that left the operation, "none" when it returned
    merged,      \* return value of _merge_power_resources (NoValue when it did not return)
    kiro_json,   \* return value of export_agent_to_kiro_json (NoValue when it did not return)
    agent_yaml,  \* collection export: the data of the agent's agent.yaml
    shared_context, \* collection export: spec.shared_context of the collection
    heap,        \* collection export: the model objects in memory, by identity
    agent_spec,  \* collection export: identity of the loaded AgentSpec
    merged_spec, \* collection export: identity of the AgentSpec _merge_shared_context returned
    specs,       \* router: the power specs given to select_powers
    query,       \* router: prompt, files, min_score and max_results of the call
    ranked,      \* router: return value of select_powers
    store,       \* concurrent merges: the accumulator objects, by identity
    calls,       \* concurrent merges: the frame of each running call
    exec_input,  \* executor: prompt and context of the call, and what running kiro-cli does
    exec_result, \* executor: the ExecutionResult of PowerExecutor.execute
    suite,       \* harness: the test cases given to run_suite
    suite_context, \* harness: the PowerContext given to run_suite, or None
    results,     \* harness: return value of run_suite
    collection,  \* harness: the collection directory given to run_collection_tests
    test_context \* harness: the CollectionTestContext run_collection_tests returned

collectionVars == <<agent_yaml, shared_context, heap, agent_spec, merged_spec>>
routerVars == <<specs, query, ranked>>
concurrentVars == <<store, calls>>
executorVars == <<exec_input, exec_result>>
harnessVars == <<suite, suite_context, results, collection, test_context>>

vars == <<fs, prompt, powers, pc, idx, acc, raised, merged, kiro_json,
          collectionVars, routerVars, concurrentVars, executorVars, harnessVars>>

----------------------------------------------------------------------------
(* Bounds and input domains                                                *)

MaxRefs == 2        \* power references of one agent

ToolNames == {"a", "b"}
ServerNames == {"s", "t"}
PowerPaths == {"./p1", "./p2"}

EmptyMap == [k \in {} |-> k]
NoValue == [none |-> TRUE]

\* the parts of the state a specification does not use
NoCollection ==
    /\ agent_yaml = NoValue /\ shared_context = NoValue /\ heap = EmptyMap
    /\ agent_spec = NoValue /\ merged_spec = NoValue
NoRouter == specs = <<>> /\ query = NoValue /\ ranked = NoValue
NoConcurrent == store = EmptyMap /\ calls = <<>>
NoExecutor == exec_input = NoValue /\ exec_result = NoValue
NoHarness ==
    /\ suite = <<>> /\ suite_context = NoValue /\ results = NoValue
    /\ collection = NoValue /\ test_context = NoValue

\* dict.get(key, default)
Get(d, key, default) == IF key \in DOMAIN d THEN d[key] ELSE default

\* d[key] = value on a dict
Put(d, key, value) == (key :> value) @@ d

----------------------------------------------------------------------------
(* parser.py: normalize_power_reference                                    *)
(* A reference is a bare path string (kind "str"), a plain dict (kind      *)
(* "dict") or a PowerReference model object (kind "model").  Only the      *)
(* string is converted; every other value is returned as it is.            *)

normalize_power_reference(power_ref) ==
    IF power_ref.kind = "str"
    THEN [kind |-> "dict", data |-> [path |-> power_ref.path]]
    ELSE power_ref

\* power_data["path"], power_data.get(...): defined for a dict only; a pydantic
\* model object has neither __getitem__ nor get
Subscriptable(power_data) == power_data.kind = "dict"

----------------------------------------------------------------------------
(* exporter.py: _merge_power_resources                                     *)

\* the accumulators of one merge call (exporter.py lines 140-150)
EmptyMerge ==
    [tools |-> <<>>,
     mcp_servers |-> EmptyMap,
     steering_content |-> <<>>,
     tool_collisions |-> <<>>,
     server_collisions |-> <<>>,
     steering_collisions |-> <<>>,
     tool_sources |-> EmptyMap,
     server_sources |-> EmptyMap]

Collision(name, first, later) ==
    [name |-> name, powers |-> <<first, later>>,
     resolution |-> "unresolved", final_source |-> first]

\* InsertTool with the source recorded under the name the power declared
InsertTool_RawKey(st, power_data, power_path, tool) ==
    LET tool_name == Get(tool, "name", "")
        exclude_tools == Get(power_data, "exclude_tools", {})
        tool_aliases == Get(power_data, "tool_aliases", EmptyMap)
        renamed == IF tool_name \in DOMAIN tool_aliases
                   THEN Put(tool, "name", tool_aliases[tool_name])
                   ELSE tool
        final_name == IF tool_name \in DOMAIN tool_aliases
                      THEN tool_aliases[tool_name]
                      ELSE tool_name
    IN  IF final_name \notin exclude_tools
        THEN [st EXCEPT !.tools = Append(@, renamed),
                        !.tool_sources = Put(@, tool_name, power_path)]
        ELSE st

\* InsertTool putting the tool in front of the merged list
InsertTool_Prepend(st, power_data, power_path, tool) ==
    LET tool_name == Get(tool, "name", "")
        exclude_tools == Get(power_data, "exclude_tools", {})
        tool_aliases == Get(power_data, "tool_aliases", EmptyMap)
        renamed == IF tool_name \in DOMAIN tool_aliases
                   THEN Put(tool, "name", tool_aliases[tool_name])
                   ELSE tool
        final_name == IF tool_name \in DOMAIN tool_aliases
                      THEN tool_aliases[tool_name]
                      ELSE tool_name
    IN  IF final_name \notin exclude_tools
        THEN [st EXCEPT !.tools = <<renamed>> \o @,
                        !.tool_sources = Put(@, final_name, power_path)]
        ELSE st

\* InsertTool recording the power as the source of a tool it excludes
InsertTool_RecordsExcluded(st, power_data, power_path, tool) ==
    LET tool_name == Get(tool, "name", "")
        exclude_tools == Get(power_data, "exclude_tools", {})
        tool_aliases == Get(power_data, "tool_aliases", EmptyMap)
        renamed == IF tool_name \in DOMAIN tool_aliases
                   THEN Put(tool, "name", tool_aliases[tool_name])
                   ELSE tool
        final_name == IF tool_name \in DOMAIN tool_aliases
                      THEN tool_aliases[tool_name]
                      ELSE tool_name
    IN  IF final_name \notin exclude_tools
        THEN [st EXCEPT !.tools = Append(@, renamed),
                        !.tool_sources = Put(@, final_name, power_path)]
        ELSE [st EXCEPT !.tool_sources = Put(@, final_name, power_path)]

\* lines 193-200: rename the tool when the reference aliases its name, then
\* append it and record its source unless the final name is excluded
InsertTool(st, power_data, power_path, tool) ==
    LET tool_name == Get(tool, "name", "")
        exclude_tools == Get(power_data, "exclude_tools", {})
        tool_aliases == Get(power_data, "tool_aliases", EmptyMap)
        renamed == IF tool_name \in DOMAIN tool_aliases
                   THEN Put(tool, "name", tool_aliases[tool_name])
                   ELSE tool
        final_name == IF tool_name \in DOMAIN tool_aliases
                      THEN tool_aliases[tool_name]
                      ELSE tool_name
    IN  IF final_name \notin exclude_tools
        THEN [st EXCEPT !.tools = Append(@, renamed),
                        !.tool_sources = Put(@, final_name, power_path)]
        ELSE st

RecordToolCollision(st, power_path, tool_name) ==
    [st EXCEPT !.tool_collisions =
        Append(@, Collision(tool_name, st.tool_sources[tool_name], power_path))]

\* MergeTool without the "continue" of line 191
MergeTool_NoContinue(st, power_data, power_path, tool) ==
    LET tool_name == Get(tool, "name", "")
        exclude_tools == Get(power_data, "exclude_tools", {})
    IN  IF tool_name \in DOMAIN st.tool_sources /\ tool_name \notin exclude_tools
        THEN InsertTool(RecordToolCollision(st, power_path, tool_name),
                        power_data, power_path, tool)
        ELSE InsertTool(st, power_data, power_path, tool)

\* MergeTool with the collision test made on the name after aliasing
MergeTool_AliasFirst(st, power_data, power_path, tool) ==
    LET tool_name == Get(tool, "name", "")
        exclude_tools == Get(power_data, "exclude_tools", {})
        tool_aliases == Get(power_data, "tool_aliases", EmptyMap)
        final_name == Get(tool_aliases, tool_name, tool_name)
    IN  IF final_name \in DOMAIN st.tool_sources /\ final_name \notin exclude_tools
        THEN RecordToolCollision(st, power_path, final_name)
        ELSE InsertTool(st, power_data, power_path, tool)

\* body of "for tool in tools_data['tools']" for a tool that is a dict
\* (lines 181-200)
MergeTool(st, power_data, power_path, tool) ==
    LET tool_name == Get(tool, "name", "")
        exclude_tools == Get(power_data, "exclude_tools", {})
    IN  IF tool_name \in DOMAIN st.tool_sources /\ tool_name \notin exclude_tools
        THEN RecordToolCollision(st, power_path, tool_name)
        ELSE InsertTool(st, power_data, power_path, tool)

\* the loop over tools_data["tools"] from entry i on; an entry that is not a
\* dict makes tool.get raise, which leaves the loop and the rest of the file
\* (the except of line 220) with everything merged so far kept
RECURSIVE MergeTools(_, _, _, _, _)
MergeTools(st, power_data, power_path, tools, i) ==
    IF i > Len(tools) THEN [st |-> st, failed |-> FALSE]
    ELSE IF ~tools[i].isdict THEN [st |-> st, failed |-> TRUE]
    ELSE MergeTools(MergeTool(st, power_data, power_path, tools[i].value),
                    power_data, power_path, tools, i + 1)

\* lines 215-218: the key under which the server is stored is the alias
InsertServer(st, power_data, power_path, server_name, server_config) ==
    LET final_server_name ==
            Get(Get(power_data, "server_aliases", EmptyMap), server_name, server_name)
    IN  [st EXCEPT !.mcp_servers = Put(@, final_server_name, server_config),
                   !.server_sources = Put(@, final_server_name, power_path)]

RecordServerCollision(st, power_path, server_name) ==
    [st EXCEPT !.server_collisions =
        Append(@, Collision(server_name, st.server_sources[server_name], power_path))]

\* MergeServer with the exclusion test of the tools applied to servers too
MergeServer_Excludes(st, power_data, power_path, server_name, server_config) ==
    IF server_name \in DOMAIN st.server_sources
    THEN IF server_name \notin Get(power_data, "exclude_tools", {})
         THEN RecordServerCollision(st, power_path, server_name)
         ELSE st
    ELSE InsertServer(st, power_data, power_path, server_name, server_config)

\* body of "for server_name, server_config in ...items()" (lines 205-218)
MergeServer(st, power_data, power_path, server_name, server_config) ==
    IF server_name \in DOMAIN st.server_sources
    THEN RecordServerCollision(st, power_path, server_name)
    ELSE InsertServer(st, power_data, power_path, server_name, server_config)

RECURSIVE MergeServers(_, _, _, _, _)
MergeServers(st, power_data, power_path, items, i) ==
    IF i > Len(items) THEN st
    ELSE MergeServers(MergeServer(st, power_data, power_path, items[i][1], items[i][2]),
                      power_data, power_path, items, i + 1)

\* one iteration of "for tools_file in ...tools_files" (lines 174-221): a file
\* that cannot be read or parsed, or whose document is no mapping, raises
\* before anything is merged; a mcpServers value that is no mapping raises at
\* .items(), after the tools of the file were merged
MergeToolsFile(st, power_data, power_path, file) ==
    IF ~file.loads THEN st
    ELSE LET tools_data == file.data
             afterTools == IF "tools" \in DOMAIN tools_data
                           THEN MergeTools(st, power_data, power_path, tools_data["tools"], 1)
                           ELSE [st |-> st, failed |-> FALSE]
         IN  IF afterTools.failed THEN afterTools.st
             ELSE IF "mcpServers" \notin DOMAIN tools_data THEN afterTools.st
             ELSE IF ~tools_data["mcpServers"].ismap THEN afterTools.st
             ELSE MergeServers(afterTools.st, power_data, power_path,
                               tools_data["mcpServers"].items, 1)

RECURSIVE MergeToolsFiles(_, _, _, _, _)
MergeToolsFiles(st, power_data, power_path, files, i) ==
    IF i > Len(files) THEN st
    ELSE MergeToolsFiles(MergeToolsFile(st, power_data, power_path, files[i]),
                         power_data, power_path, files, i + 1)

\* MergeSteering keeping only the first section of each file
RECURSIVE MergeSteering_FirstSection(_, _, _)
MergeSteering_FirstSection(st, files, i) ==
    IF i > Len(files) THEN st
    ELSE MergeSteering_FirstSection(
             IF files[i].readable
             THEN [st EXCEPT !.steering_content = Append(@, IF Len(files[i].text) > 1
                                                                THEN <<files[i].text[1]>>
                                                                ELSE files[i].text)]
             ELSE st,
             files, i + 1)

\* the loop over steering_files (lines 166-171): an unreadable file is skipped
RECURSIVE MergeSteering(_, _, _)
MergeSteering(st, files, i) ==
    IF i > Len(files) THEN st
    ELSE MergeSteering(IF files[i].readable
                       THEN [st EXCEPT !.steering_content = Append(@, files[i].text)]
                       ELSE st,
                       files, i + 1)

\* one iteration of "for power_ref in power_refs" (lines 153-221) on a
\* reference whose normal form can be subscripted
MergePower(st, dirs, power_data) ==
    LET power_path == power_data["path"]
        power_dir == dirs[power_path]
    IN  IF ~power_dir.exists THEN st
        ELSE IF ~power_dir.loads THEN st
        ELSE MergeToolsFiles(MergeSteering(st, power_dir.steering_files, 1),
                             power_data, power_path, power_dir.tools_files, 1)

\* the loop over power_refs: a reference that normalises to something that is
\* not a dict raises TypeError at power_data["path"] (line 154), outside every
\* try, so the call ends there
RECURSIVE MergeRefs(_, _, _, _)
MergeRefs(st, dirs, power_refs, i) ==
    IF i > Len(power_refs) THEN [raised |-> "none", st |-> st, done |-> Len(power_refs)]
    ELSE LET power_data == normalize_power_reference(power_refs[i])
         IN  IF ~Subscriptable(power_data)
             THEN [raised |-> "TypeError", st |-> st, done |-> i - 1]
             ELSE MergeRefs(MergePower(st, dirs, power_data.data), dirs, power_refs, i + 1)

\* the returned dict (lines 223-228)
MergeResult(st) ==
    [tools |-> st.tools,
     mcp_servers |-> st.mcp_servers,
     steering_content |-> st.steering_content,
     collision_metadata |-> [tool_collisions |-> st.tool_collisions,
                             server_collisions |-> st.server_collisions,
                             steering_collisions |-> st.steering_collisions]]

\* _merge_power_resources(agent_dir, power_refs): the exception or the
\* returned value, with the locals as the call left them
merge_power_resources(dirs, power_refs) ==
    LET run == MergeRefs(EmptyMerge, dirs, power_refs, 1)
    IN  IF run.raised = "none"
        THEN [raised |-> "none", value |-> MergeResult(run.st),
              locals |-> run.st, done |-> run.done]
        ELSE [raised |-> run.raised, value |-> NoValue,
              locals |-> run.st, done |-> run.done]

----------------------------------------------------------------------------
(* exporter.py: export_agent_to_kiro_json                                  *)
(* A text is a sequence of blocks; Sep is the "\n\n" separator.            *)

PromptText == <<"prompt">>
Sep == "\n\n"

\* the blocks put one after the other with nothing between them
Join_Concat(blocks) ==
    IF Len(blocks) = 0 THEN <<>>
    ELSE IF Len(blocks) = 1 THEN blocks[1]
    ELSE blocks[1] \o blocks[2] \o (IF Len(blocks) > 2 THEN blocks[3] ELSE <<>>)

\* "\n\n".join(blocks)
RECURSIVE Join(_)
Join(blocks) ==
    IF Len(blocks) = 0 THEN <<>>
    ELSE IF Len(blocks) = 1 THEN blocks[1]
    ELSE blocks[1] \o <<Sep>> \o Join(Tail(blocks))

\* export_agent_to_kiro_json going on to the merge when the prompt file is missing
export_agent_to_kiro_json_NoPromptCheck(dirs, prompt_file, spec_powers) ==
    IF prompt_file = "unreadable"
    THEN [raised |-> "ExportError", value |-> NoValue, locals |-> EmptyMerge, done |-> 0]
    ELSE LET m == merge_power_resources(dirs, spec_powers)
         IN  [raised |-> m.raised, value |-> m.value, locals |-> m.locals, done |-> m.done]

\* [raised, value] of export_agent_to_kiro_json (lines 44-83)
export_agent_to_kiro_json(dirs, prompt_file, spec_powers) ==
    IF prompt_file = "missing"
    THEN [raised |-> "ExportError", value |-> NoValue, locals |-> EmptyMerge, done |-> 0]
    ELSE IF prompt_file = "unreadable"
    THEN [raised |-> "ExportError", value |-> NoValue, locals |-> EmptyMerge, done |-> 0]
    ELSE LET m == merge_power_resources(dirs, spec_powers)
         IN  IF m.raised # "none"
             THEN [raised |-> m.raised, value |-> NoValue,
                   locals |-> m.locals, done |-> m.done]
             ELSE LET merged_resources == m.value
                      final_prompt ==
                          IF Len(merged_resources.steering_content) > 0
                          THEN PromptText \o <<Sep>> \o Join(merged_resources.steering_content)
                          ELSE PromptText
                  IN  [raised |-> "none", locals |-> m.locals, done |-> m.done,
                       value |->
                         [prompt |-> final_prompt,
                          tools |-> merged_resources.tools,
                          mcpServers |-> merged_resources.mcp_servers,
                          source_powers |->
                              [i \in 1..Len(spec_powers) |->
                                  normalize_power_reference(spec_powers[i]).data["path"]],
                          collision_resolution |-> merged_resources.collision_metadata]]

----------------------------------------------------------------------------
(* Inputs: the agent directory on disk and the power references            *)

SeqsUpTo(S, n) == UNION {[1..k -> S] : k \in 0..n}

\* the lists of at most two items of S: the item lists of a tools file
ShortLists(S) == {<<>>} \cup {<<x>> : x \in S} \cup {<<x, y>> : x \in S, y \in S}

\* a tool definition of power p: a dict with a name; impl stands for the rest
\* of its keys (description, parameters), which differ from power to power
ToolDict(p, n) == [isdict |-> TRUE, value |-> [name |-> n, impl |-> p]]
\* a list item that is no dict (a scalar)
Scalar == [isdict |-> FALSE]

ServerMap(items) == [ismap |-> TRUE, items |-> items]
NotAMap == [ismap |-> FALSE]

ToolsFile(data) == [loads |-> TRUE, data |-> data]
BrokenFile == [loads |-> FALSE]

SteeringOf(p) == [readable |-> TRUE, text |-> <<p>>]
UnreadableSteering == [readable |-> FALSE]

MissingDir == [exists |-> FALSE]
InvalidPower == [exists |-> TRUE, loads |-> FALSE]
Power(steering_files, tools_files) ==
    [exists |-> TRUE, loads |-> TRUE,
     steering_files |-> steering_files, tools_files |-> tools_files]

StrRef(p) == [kind |-> "str", path |-> p]
DictRef(p, excl, tal, sal) ==
    [kind |-> "dict",
     data |-> [path |-> p, exclude_tools |-> excl, tool_aliases |-> tal,
               server_aliases |-> sal, exclude_steering_sections |-> {}]]
ModelRef(p, excl, tal, sal) ==
    [kind |-> "model",
     data |-> [path |-> p, exclude_tools |-> excl, tool_aliases |-> tal,
               server_aliases |-> sal, exclude_steering_sections |-> {}]]

\* alias maps that rename at most one name
AliasMaps(Names) ==
    {EmptyMap} \cup {(x[1] :> x[2]) : x \in {y \in Names \X Names : y[1] # y[2]}}
\* exclude lists of at most one name
ExcludeLists(Names) == {{}} \cup {{n} : n \in Names}

RefLists(Refs) == SeqsUpTo(Refs, MaxRefs) \ {<<>>}

\* the lists whose first reference is to ./p1: where the two power
\* directories are drawn from the same shapes, a list that starts with ./p2
\* is the mirror image of one of these
RefListsFrom1(Refs) == {l \in RefLists(Refs) : l[1].data["path"] = "./p1"}

\* Tool collisions, exclusion and aliasing: every power directory loads and
\* has one tools file with a list of tools
ToolPowers(p) ==
    {Power(<<>>, <<ToolsFile([tools |-> ts])>>) :
        ts \in ShortLists({ToolDict(p, n) : n \in ToolNames})}
ToolRefs ==
    {DictRef(p, excl, tal, EmptyMap) :
        p \in PowerPaths, excl \in ExcludeLists(ToolNames), tal \in AliasMaps(ToolNames)}

\* MCP server collisions and aliasing: one tools file with a server mapping
ServerItems(p) ==
    {<<>>} \cup {<<<<n, p>>>> : n \in ServerNames}
           \cup {<< <<x[1], p>>, <<x[2], p>> >> :
                    x \in {y \in ServerNames \X ServerNames : y[1] # y[2]}}
ServerPowers(p) ==
    {Power(<<>>, <<ToolsFile([mcpServers |-> ServerMap(items)])>>) :
        items \in ServerItems(p)}
ServerRefs ==
    {DictRef(p, excl, EmptyMap, sal) :
        p \in PowerPaths, excl \in ExcludeLists({"s"}), sal \in AliasMaps(ServerNames)}

\* Failures: a missing directory, a POWER.md that does not load, unreadable
\* steering, tools files that fail before, inside or after their tool list,
\* each optionally followed by a sound tools file; the second power is
\* missing, invalid or sound
FailingFiles(p) ==
    {BrokenFile}
    \cup {ToolsFile([tools |-> ts]) : ts \in ShortLists({ToolDict(p, "a"), Scalar})}
    \cup {ToolsFile([tools |-> <<ToolDict(p, "a")>>, mcpServers |-> NotAMap]),
          ToolsFile([tools |-> <<ToolDict(p, "a")>>,
                     mcpServers |-> ServerMap(<< <<"s", p>> >>)]),
          ToolsFile([tools |-> <<Scalar>>, mcpServers |-> ServerMap(<< <<"s", p>> >>)]),
          ToolsFile([mcpServers |-> ServerMap(<< <<"s", p>> >>)])}
GoodFile(p) ==
    ToolsFile([tools |-> <<ToolDict(p, "b")>>, mcpServers |-> ServerMap(<< <<"t", p>> >>)])
SoundPower(p) ==
    Power(<<SteeringOf(p)>>,
          <<ToolsFile([tools |-> <<ToolDict(p, "a")>>,
                       mcpServers |-> ServerMap(<< <<"s", p>> >>)])>>)
FailingPowers(p) ==
    {MissingDir, InvalidPower}
    \cup {Power(st, fl) :
            st \in {<<>>, <<SteeringOf(p)>>, <<UnreadableSteering>>},
            fl \in {<<f>> : f \in FailingFiles(p)}
                   \cup {<<f, GoodFile(p)>> : f \in FailingFiles(p)}}
\* what AgentSpec.powers holds after validation: bare strings and
\* PowerReference objects (models.py line 158)
SpecRefs ==
    {StrRef(p) : p \in PowerPaths}
    \cup {ModelRef(p, {}, EmptyMap, EmptyMap) : p \in PowerPaths}

PromptStates == {"ok", "missing", "unreadable"}

\* Steering: the steering files of a power are two files of one or two
\* sections, an unreadable file before a readable one, an empty file, or
\* none; the directories have no tools files.  A reference is a bare path
\* or a dict that names a section in exclude_steering_sections
SteeringTexts(p) ==
    IF p = "./p1"
    THEN << <<"p1 intro", "p1 rules">>, <<"p1 notes">> >>
    ELSE << <<"p2 intro", "p2 rules">>, <<"p2 notes">> >>
SteeringFile(p, k) == [readable |-> TRUE, text |-> SteeringTexts(p)[k]]
EmptySteering == [readable |-> TRUE, text |-> <<>>]
SteeringPowers(p) ==
    {Power(files, <<>>) :
        files \in {<<>>, <<SteeringFile(p, 1)>>, <<SteeringFile(p, 1), SteeringFile(p, 2)>>,
                   <<UnreadableSteering, SteeringFile(p, 2)>>, <<EmptySteering>>}}
SteeringRef(p, sections) ==
    [kind |-> "dict",
     data |-> [path |-> p, exclude_tools |-> {}, tool_aliases |-> EmptyMap,
               server_aliases |-> EmptyMap, exclude_steering_sections |-> sections]]
SteeringRefs ==
    {StrRef(p) : p \in PowerPaths}
    \cup {SteeringRef(p, {"p1 rules", "p2 rules"}) : p \in PowerPaths}

InitSteering ==
    /\ fs \in [PowerPaths -> UNION {SteeringPowers(p) : p \in PowerPaths}]
    /\ \A p \in PowerPaths : fs[p] \in SteeringPowers(p)
    /\ powers \in RefLists(SteeringRefs)
    /\ prompt = "ok"

InitTools ==
    /\ fs \in [PowerPaths -> UNION {ToolPowers(p) : p \in PowerPaths}]
    /\ \A p \in PowerPaths : fs[p] \in ToolPowers(p)
    /\ powers \in RefListsFrom1(ToolRefs)
    /\ prompt = "ok"

InitServers ==
    /\ fs \in [PowerPaths -> UNION {ServerPowers(p) : p \in PowerPaths}]
    /\ \A p \in PowerPaths : fs[p] \in ServerPowers(p)
    /\ powers \in RefListsFrom1(ServerRefs)
    /\ prompt = "ok"

InitFailures ==
    /\ \E d1 \in FailingPowers("./p1"),
          d2 \in {MissingDir, InvalidPower, SoundPower("./p2")} :
            fs = ("./p1" :> d1) @@ ("./p2" :> d2)
    /\ powers \in RefLists(SpecRefs)
    /\ prompt \in PromptStates

Init ==
    /\ InitTools \/ InitServers \/ InitFailures \/ InitSteering
    /\ pc = "idle"
    /\ idx = 0
    /\ acc = EmptyMerge
    /\ raised = "none"
    /\ merged = NoValue
    /\ kiro_json = NoValue
    /\ NoCollection /\ NoRouter /\ NoConcurrent /\ NoExecutor /\ NoHarness

\* a direct call of _merge_power_resources(agent_dir, power_refs)
MergePowerResources ==
    /\ pc = "idle"
    /\ LET r == merge_power_resources(fs, powers)
       IN  /\ raised' = r.raised
           /\ merged' = r.value
           /\ acc' = r.locals
           /\ idx' = r.done
    /\ pc' = "merge"
    /\ UNCHANGED <<fs, prompt, powers, kiro_json>>
    /\ UNCHANGED <<collectionVars, routerVars, concurrentVars, executorVars, harnessVars>>

\* export_agent_to_kiro_json(agent_dir, spec), spec a validated AgentSpec
ExportAgent ==
    /\ pc = "idle"
    /\ \A i \in 1..Len(powers) : powers[i].kind \in {"str", "model"}
    /\ LET r == export_agent_to_kiro_json(fs, prompt, powers)
       IN  /\ raised' = r.raised
           /\ kiro_json' = r.value
           /\ acc' = r.locals
           /\ idx' = r.done
    /\ pc' = "export"
    /\ UNCHANGED <<fs, prompt, powers, merged>>
    /\ UNCHANGED <<collectionVars, routerVars, concurrentVars, executorVars, harnessVars>>

Next == MergePowerResources \/ ExportAgent

Spec == Init /\ [][Next]_vars

----------------------------------------------------------------------------
(* The loop of _merge_power_resources, one power reference per step        *)

SinglePowers(p) ==
    {Power(<<>>, <<ToolsFile([tools |-> <<>>])>>)}
    \cup {Power(<<>>, <<ToolsFile([tools |-> <<ToolDict(p, n)>>])>>) : n \in ToolNames}
SingleServerPowers(p) ==
    {Power(<<>>, <<ToolsFile([mcpServers |-> ServerMap(<<>>)])>>)}
    \cup {Power(<<>>, <<ToolsFile([mcpServers |-> ServerMap(<< <<n, p>> >>)])>>) :
             n \in ServerNames}

InitSteps ==
    /\ \/ /\ fs \in [PowerPaths -> UNION {SinglePowers(p) : p \in PowerPaths}]
          /\ \A p \in PowerPaths : fs[p] \in SinglePowers(p)
          /\ powers \in RefLists(ToolRefs)
       \/ /\ fs \in [PowerPaths -> UNION {SingleServerPowers(p) : p \in PowerPaths}]
          /\ \A p \in PowerPaths : fs[p] \in SingleServerPowers(p)
          /\ powers \in RefListsFrom1(ServerRefs)
    /\ prompt = "ok"
    /\ pc = "idle"
    /\ idx = 0
    /\ acc = EmptyMerge
    /\ raised = "none"
    /\ merged = NoValue
    /\ kiro_json = NoValue
    /\ NoCollection /\ NoRouter /\ NoConcurrent /\ NoExecutor /\ NoHarness

\* entry of _merge_power_resources: fresh accumulators (lines 140-150)
BeginMerge ==
    /\ pc = "idle"
    /\ pc' = "loop"
    /\ idx' = 0
    /\ acc' = EmptyMerge
    /\ UNCHANGED <<fs, prompt, powers, raised, merged, kiro_json>>
    /\ UNCHANGED <<collectionVars, routerVars, concurrentVars, executorVars, harnessVars>>

\* one iteration of the loop over power_refs (lines 152-221)
LoopPower ==
    /\ pc = "loop"
    /\ idx < Len(powers)
    /\ LET power_data == normalize_power_reference(powers[idx + 1])
       IN  IF ~Subscriptable(power_data)
           THEN /\ raised' = "TypeError"
                /\ pc' = "merge"
                /\ UNCHANGED <<idx, acc>>
           ELSE /\ acc' = MergePower(acc, fs, power_data.data)
                /\ idx' = idx + 1
                /\ UNCHANGED <<pc, raised>>
    /\ UNCHANGED <<fs, prompt, powers, merged, kiro_json>>
    /\ UNCHANGED <<collectionVars, routerVars, concurrentVars, executorVars, harnessVars>>

\* the return statement (lines 223-228)
ReturnMerge ==
    /\ pc = "loop"
    /\ idx = Len(powers)
    /\ merged' = MergeResult(acc)
    /\ pc' = "merge"
    /\ UNCHANGED <<fs, prompt, powers, idx, acc, raised, kiro_json>>
    /\ UNCHANGED <<collectionVars, routerVars, concurrentVars, executorVars, harnessVars>>

NextSteps == BeginMerge \/ LoopPower \/ ReturnMerge

SpecSteps == InitSteps /\ [][NextSteps]_vars

----------------------------------------------------------------------------
(* Vocabulary of the properties                                            *)

\* the operation returned a value
Returned == pc \in {"merge", "export"} /\ raised = "none"

\* the merged resources of the returned value
OutTools == IF pc = "merge" THEN merged.tools ELSE kiro_json.tools
OutServers == IF pc = "merge" THEN merged.mcp_servers ELSE kiro_json.mcpServers
OutCollisions ==
    IF pc = "merge" THEN merged.collision_metadata ELSE kiro_json.collision_resolution

RefData(i) == normalize_power_reference(powers[i]).data
RefPath(i) == RefData(i)["path"]
ExcludeTools(i) == Get(RefData(i), "exclude_tools", {})
ToolAliases(i) == Get(RefData(i), "tool_aliases", EmptyMap)
ServerAliases(i) == Get(RefData(i), "server_aliases", EmptyMap)
Refs == 1..Len(powers)

\* the referenced power directory exists and its POWER.md loads
Loads(i) == fs[RefPath(i)].exists /\ fs[RefPath(i)].loads

\* a tools file that is read and processed without an exception
WellFormedFile(f) ==
    /\ f.loads
    /\ "tools" \in DOMAIN f.data =>
           \A k \in 1..Len(f.data["tools"]) : f.data["tools"][k].isdict
    /\ "mcpServers" \in DOMAIN f.data => f.data["mcpServers"].ismap
WellFormed ==
    \A i \in Refs : Loads(i) =>
        \A k \in 1..Len(fs[RefPath(i)].tools_files) :
            WellFormedFile(fs[RefPath(i)].tools_files[k])

RECURSIVE Flatten(_)
Flatten(ss) == IF Len(ss) = 0 THEN <<>> ELSE Head(ss) \o Flatten(Tail(ss))

FileTools(f) ==
    IF f.loads /\ "tools" \in DOMAIN f.data THEN f.data["tools"] ELSE <<>>
FileServers(f) ==
    IF f.loads /\ "mcpServers" \in DOMAIN f.data /\ f.data["mcpServers"].ismap
    THEN f.data["mcpServers"].items ELSE <<>>

\* the tools (the servers) that reference i declares, in file order: what the
\* tools files of its power list, when they are well formed
ToolDeclsOf(i) ==
    IF ~Loads(i) THEN <<>>
    ELSE LET files == fs[RefPath(i)].tools_files
         IN  Flatten([k \in 1..Len(files) |->
                        [t \in 1..Len(FileTools(files[k])) |->
                            [ref |-> i, name |-> Get(FileTools(files[k])[t].value, "name", ""),
                             tool |-> FileTools(files[k])[t].value]]])
ServerDeclsOf(i) ==
    IF ~Loads(i) THEN <<>>
    ELSE LET files == fs[RefPath(i)].tools_files
         IN  Flatten([k \in 1..Len(files) |->
                        [t \in 1..Len(FileServers(files[k])) |->
                            [ref |-> i, name |-> FileServers(files[k])[t][1],
                             config |-> FileServers(files[k])[t][2]]]])
ToolDecls == Flatten([i \in Refs |-> ToolDeclsOf(i)])
ServerDecls == Flatten([i \in Refs |-> ServerDeclsOf(i)])

Named(seq, n) == LET Is(x) == x.name = n IN SelectSeq(seq, Is)

NoToolOptions == \A i \in Refs : ExcludeTools(i) = {} /\ ToolAliases(i) = EmptyMap
NoServerAliases == \A i \in Refs : ServerAliases(i) = EmptyMap

----------------------------------------------------------------------------
----------------------------------------------------------------------------
(* C2: whatever the references exclude or alias, the merged tool list      *)
(* never holds two tools with the same name.                               *)
C2_UniqueToolNames ==
    Returned =>
        \A i \in 1..Len(OutTools) : \A j \in 1..Len(OutTools) :
            i # j => OutTools[i].name # OutTools[j].name

----------------------------------------------------------------------------
----------------------------------------------------------------------------
(* C4: once a key is in the merged MCP server map, no later power          *)
(* reference replaces its config, whatever the server aliases are.         *)
C4_ServerConfigNeverReplaced ==
    [][\A K \in DOMAIN acc.mcp_servers :
          /\ K \in DOMAIN acc'.mcp_servers
          /\ acc'.mcp_servers[K] = acc.mcp_servers[K]]_vars

----------------------------------------------------------------------------
(* C5: if an earlier power A contributed tool N and a later reference B    *)
(* lists N in its exclude_tools, then no tool_collisions entry for N names *)
(* B, A's definition of N is in the merged list, and the merged list holds *)
(* exactly one tool named N.                                               *)
DistinctPaths == \A i \in Refs : \A j \in Refs : i # j => RefPath(i) # RefPath(j)

ContributedBy(i, N) ==
    \E t \in 1..Len(OutTools) : OutTools[t].name = N /\ OutTools[t].impl = RefPath(i)

C5_ExcludedLaterToolKeepsFirst ==
    (Returned /\ WellFormed /\ DistinctPaths) =>
        \A i \in Refs : \A j \in Refs : \A N \in ToolNames :
            (i < j /\ ContributedBy(i, N) /\ N \in ExcludeTools(j)) =>
                /\ \A c \in 1..Len(OutCollisions.tool_collisions) :
                      ~(/\ OutCollisions.tool_collisions[c].name = N
                        /\ OutCollisions.tool_collisions[c].powers[2] = RefPath(j))
                /\ ContributedBy(i, N)
                /\ Len(Named(OutTools, N)) = 1

----------------------------------------------------------------------------
(* C6: when the reference P being merged maps tool name N to alias M, N    *)
(* has no recorded source and P declares N, the tool merged from P is      *)
(* named M and the source map gets the key M, not N; when P was the last   *)
(* reference merged, a next power declaring N is merged without a          *)
(* collision, and a next power declaring M is dropped as a collision with  *)
(* final_source = P.                                                       *)
DeclaredNames(i) == [t \in 1..Len(ToolDeclsOf(i)) |-> ToolDeclsOf(i)[t].name]
Aliases(i, N, M) == N \in DOMAIN ToolAliases(i) /\ ToolAliases(i)[N] = M

C6_AliasStep(N, M) ==
    LET P == idx + 1
    IN  (/\ Aliases(P, N, M) /\ DeclaredNames(P) = <<N>>
         /\ N \notin DOMAIN acc.tool_sources /\ M \notin ExcludeTools(P)) =>
            /\ acc'.tools = Append(acc.tools, [name |-> M, impl |-> RefPath(P)])
            /\ acc'.tool_sources = Put(acc.tool_sources, M, RefPath(P))
            /\ N \notin DOMAIN acc'.tool_sources

C6_NextStep(N, M) ==
    LET P == idx
        Q == idx + 1
    IN  (/\ idx >= 1
         /\ Aliases(P, N, M) /\ DeclaredNames(P) = <<N>>
         /\ N \notin DOMAIN acc.tool_sources /\ M \notin ExcludeTools(P)) =>
            /\ (/\ DeclaredNames(Q) = <<N>>
                /\ N \notin ExcludeTools(Q) /\ N \notin DOMAIN ToolAliases(Q)) =>
                   /\ acc'.tools = Append(acc.tools, [name |-> N, impl |-> RefPath(Q)])
                   /\ acc'.tool_collisions = acc.tool_collisions
            /\ (DeclaredNames(Q) = <<M>> /\ M \notin ExcludeTools(Q)) =>
                   /\ acc'.tools = acc.tools
                   /\ acc'.tool_collisions =
                          Append(acc.tool_collisions,
                                 [name |-> M, powers |-> <<RefPath(P), RefPath(Q)>>,
                                  resolution |-> "unresolved",
                                  final_source |-> RefPath(P)])

C6_AliasRenamesToolAndSourceKey ==
    [][(pc = "loop" /\ idx < Len(powers) /\ idx' = idx + 1) =>
           \A N \in ToolNames : \A M \in ToolNames \ {N} :
               C6_AliasStep(N, M) /\ C6_NextStep(N, M)]_vars

\* P aliased N to M, and the next power, declaring M, was dropped with
\* final_source = P
C6_Witness ==
    /\ pc = "loop" /\ idx = 2
    /\ \E N \in ToolNames : \E M \in ToolNames \ {N} :
          /\ Aliases(1, N, M) /\ DeclaredNames(1) = <<N>>
          /\ DeclaredNames(2) = <<M>>
          /\ RefPath(1) # RefPath(2)
          /\ acc.tools = <<[name |-> M, impl |-> RefPath(1)]>>
          /\ Len(acc.tool_collisions) = 1
          /\ acc.tool_collisions[1].final_source = RefPath(1)

----------------------------------------------------------------------------
(* C7: exporting an agent whose references are structured PowerReference   *)
(* objects with empty exclude/alias fields completes and returns the same  *)
(* prompt (steering), tools, servers and collisions as the export of the   *)
(* bare path strings of the same paths.                                    *)
EmptyFields(i) ==
    /\ ExcludeTools(i) = {}
    /\ ToolAliases(i) = EmptyMap
    /\ ServerAliases(i) = EmptyMap
    /\ Get(RefData(i), "exclude_steering_sections", {}) = {}

AsStrings(refs) ==
    [i \in 1..Len(refs) |->
        IF refs[i].kind = "model" THEN StrRef(refs[i].data["path"]) ELSE refs[i]]

C7_StructuredReferenceExportsAsString ==
    (pc = "export" /\ prompt = "ok" /\ \A i \in Refs : EmptyFields(i)) =>
        LET r == export_agent_to_kiro_json(fs, prompt, AsStrings(powers))
        IN  /\ raised = "none"
            /\ r.raised = "none"
            /\ kiro_json = r.value

----------------------------------------------------------------------------
(* C8: exporting an agent one of whose referenced power directories is     *)
(* missing, or whose POWER.md fails to load, completes without error; its  *)
(* prompt (steering), tools, servers and collision lists equal those of    *)
(* the export with that reference removed, and no collision entry names    *)
(* the missing power.                                                      *)
RemoveAt(seq, i) == SubSeq(seq, 1, i - 1) \o SubSeq(seq, i + 1, Len(seq))

NamesPower(collisions, path) ==
    \E c \in 1..Len(collisions) : \E k \in 1..Len(collisions[c].powers) :
        collisions[c].powers[k] = path

C8_MissingPowerIsOmitted ==
    (pc = "export" /\ prompt = "ok") =>
        \A i \in Refs : ~Loads(i) =>
            LET r == export_agent_to_kiro_json(fs, prompt, RemoveAt(powers, i))
            IN  /\ raised = "none"
                /\ r.raised = "none"
                /\ kiro_json.prompt = r.value.prompt
                /\ kiro_json.tools = r.value.tools
                /\ kiro_json.mcpServers = r.value.mcpServers
                /\ kiro_json.collision_resolution = r.value.collision_resolution
                /\ ~NamesPower(kiro_json.collision_resolution.tool_collisions, RefPath(i))
                /\ ~NamesPower(kiro_json.collision_resolution.server_collisions, RefPath(i))
                /\ ~NamesPower(kiro_json.collision_resolution.steering_collisions, RefPath(i))

----------------------------------------------------------------------------
(* C9: export_agent_to_kiro_json raises ExportError exactly when the       *)
(* prompt file is missing or unreadable, then before any power is merged   *)
(* and with no export object returned; a missing power directory, a        *)
(* POWER.md that does not load, an unreadable steering file or a failing   *)
(* tools file never changes whether the export raises.                     *)
HealthyDirs == [p \in DOMAIN fs |-> SoundPower(p)]

C9_OnlyPromptFileIsFatal ==
    pc = "export" =>
        /\ prompt # "ok" =>
               /\ raised = "ExportError"
               /\ kiro_json = NoValue
               /\ idx = 0
               /\ acc = EmptyMerge
        /\ prompt = "ok" =>
               /\ raised # "ExportError"
               /\ raised = export_agent_to_kiro_json(HealthyDirs, prompt, powers).raised
               /\ raised = "none" => kiro_json # NoValue

\* the prompt file is missing, a referenced power fails too, and the export
\* raised ExportError
C9_Witness ==
    /\ pc = "export" /\ prompt = "missing"
    /\ \E i \in Refs : ~Loads(i)
    /\ raised = "ExportError" /\ kiro_json = NoValue

----------------------------------------------------------------------------
(* C10: a tools file whose reading or processing fails at any point is     *)
(* skipped as a whole: the returned value and the source maps are those of *)
(* the same call with every failing tools file taken out of its power.     *)
WithoutFailingFiles(dirs) ==
    [p \in DOMAIN dirs |->
        IF dirs[p].exists /\ dirs[p].loads
        THEN Power(dirs[p].steering_files, SelectSeq(dirs[p].tools_files, WellFormedFile))
        ELSE dirs[p]]

C10_FailingToolsFileSkippedWhole ==
    Returned =>
        LET r == IF pc = "merge"
                 THEN merge_power_resources(WithoutFailingFiles(fs), powers)
                 ELSE export_agent_to_kiro_json(WithoutFailingFiles(fs), prompt, powers)
        IN  /\ pc = "merge" => merged = r.value
            /\ pc = "export" => kiro_json = r.value
            /\ acc.tool_sources = r.locals.tool_sources
            /\ acc.server_sources = r.locals.server_sources

----------------------------------------------------------------------------
(* Collection export: load_agent_spec, _merge_shared_context and the export *)
(* of the merged agent (exporter.py lines 106-122 and 309-345).  Model      *)
(* objects live in heap under an identity, so that a copy and the object it *)
(* was copied from can be told apart.                                       *)

\* Python's None and a present value of an Optional field
None == [some |-> FALSE]
Some(v) == [some |-> TRUE, value |-> v]
\* truth value of an Optional[str]
Truthy(v) == v.some /\ v.value # ""

Range(seq) == {seq[i] : i \in 1..Len(seq)}
\* the lists list(a_set) can return
Orderings(S) == {l \in SeqsUpTo(S, Cardinality(S)) : Len(l) = Cardinality(S) /\ Range(l) = S}

ConstraintTools == {"x", "y"}
ToolLists == {<<>>, <<"x">>, <<"y">>, <<"x", "y">>}

\* models.py lines 71-83: AgentConstraints built from a mapping; a field the
\* mapping leaves out takes its default and is not validated, a field it
\* gives goes through the field validator
AgentConstraints(data) ==
    LET opt_out == Get(data, "opt_out_collection_constraints", FALSE)
    IN  IF /\ "opt_out_justification" \in DOMAIN data
           /\ opt_out
           /\ ~Truthy(data["opt_out_justification"])
        THEN [raised |-> "ValidationError", value |-> NoValue]
        ELSE [raised |-> "none",
              value |-> [allowed_tools |-> Get(data, "allowed_tools", <<>>),
                         denied_tools |-> Get(data, "denied_tools", <<>>),
                         requires_network |-> Some(Get(data, "requires_network", FALSE)),
                         opt_out_collection_constraints |-> opt_out,
                         opt_out_justification |-> Get(data, "opt_out_justification", None),
                         model_fields_set |-> DOMAIN data]]

\* models.py line 158: a string stays a string, a mapping becomes a PowerReference
PowerRefOf(item) ==
    IF item.kind = "str" THEN item
    ELSE ModelRef(item.data["path"],
                  Get(item.data, "exclude_tools", {}),
                  Get(item.data, "tool_aliases", EmptyMap),
                  Get(item.data, "server_aliases", EmptyMap))

NewId(h) == Cardinality(DOMAIN h) + 1

\* parser.py lines 152-192: AgentSpec.model_validate(data); the AgentSpec and
\* its AgentConstraints are two new objects
load_agent_spec(h, data) ==
    LET c == AgentConstraints(Get(data, "constraints", EmptyMap))
    IN  IF Len(data["powers"]) < 1 \/ c.raised # "none"
        THEN [raised |-> "AgentSpecError", heap |-> h, ref |-> NoValue]
        ELSE LET cid == NewId(h)
                 sid == cid + 1
             IN  [raised |-> "none",
                  heap |-> (sid :> [powers |-> [i \in 1..Len(data["powers"]) |->
                                                   PowerRefOf(data["powers"][i])],
                                    constraints |-> cid])
                           @@ (cid :> c.value) @@ h,
                  ref |-> sid]

\* the shared power paths a collection lists, Path(p).name of each and the
\* string f"../shared/powers/{name}" (exporter.py line 324)
SharedPowerPaths == {"./shared/powers/x", "./shared/powers/y", "./lib/x"}
PathName(p) ==
    CASE p = "./shared/powers/x" -> "x"
      [] p = "./shared/powers/y" -> "y"
      [] p = "./lib/x" -> "x"
SharedLocation(name) ==
    CASE name = "x" -> "../shared/powers/x"
      [] name = "y" -> "../shared/powers/y"
SharedLocations == {SharedLocation(PathName(p)) : p \in SharedPowerPaths}

\* model_copy with a copy of the nested constraints sharing them instead
model_copy_Shallow(h, ref) ==
    LET sid == NewId(h)
    IN  [heap |-> (sid :> h[ref]) @@ h, ref |-> sid]

\* line 321: agent_spec.model_copy(deep=True): a new AgentSpec holding a new
\* AgentConstraints, both equal to the originals
model_copy(h, ref) ==
    LET cid == NewId(h)
        sid == cid + 1
    IN  [heap |-> (sid :> [h[ref] EXCEPT !.constraints = cid])
                  @@ (cid :> h[h[ref].constraints]) @@ h,
         ref |-> sid]

\* the shared powers put behind the agent's own references
PrependShared_Append(shared_powers, own_powers) == own_powers \o shared_powers

\* lines 324-325: shared_powers + merged_spec.powers
PrependShared(shared_powers, own_powers) == shared_powers \o own_powers

\* the shared constraints applied to an agent that opted out as well
SharedApplies_IgnoreOptOut(c, shared_constraints) == shared_constraints.some

\* lines 328-330: the collection has shared constraints and the agent did
\* not opt out of them
SharedApplies(c, shared_constraints) ==
    shared_constraints.some /\ ~c.opt_out_collection_constraints

\* the union taken for the allowed tools
MergedAllowed_Union(c, sc) == Range(c.allowed_tools) \cup Range(sc.allowed_tools)

\* line 334: set(agent allowed) & set(shared allowed)
MergedAllowed(c, sc) == Range(c.allowed_tools) \cap Range(sc.allowed_tools)
\* line 339: set(agent denied) | set(shared denied)
MergedDenied(c, sc) == Range(c.denied_tools) \cup Range(sc.denied_tools)

\* lines 333-343 on the copied constraints c, with the shared constraints
\* sc; merged_allowed and merged_denied are the lists list(set) returned
ApplyShared(c, sc, merged_allowed, merged_denied) ==
    [c EXCEPT !.allowed_tools = IF Len(sc.allowed_tools) > 0 THEN merged_allowed ELSE @,
              !.denied_tools = IF Len(sc.denied_tools) > 0 THEN merged_denied ELSE @,
              !.requires_network = IF sc.requires_network # None
                                   THEN sc.requires_network ELSE @]

\* lines 309-345: returns the heap after the call and the identity of the
\* returned AgentSpec
merge_shared_context(h, ref, shared, merged_allowed, merged_denied) ==
    LET copy == model_copy(h, ref)
        m == copy.ref
        cm == copy.heap[m].constraints
        shared_powers == [i \in 1..Len(shared.powers) |->
                             StrRef(SharedLocation(PathName(shared.powers[i])))]
        h1 == [copy.heap EXCEPT ![m].powers = PrependShared(shared_powers, @)]
    IN  [heap |-> IF SharedApplies(h1[cm], shared.constraints)
                  THEN [h1 EXCEPT ![cm] = ApplyShared(@, h1[shared.constraints.value],
                                                      merged_allowed, merged_denied)]
                  ELSE h1,
         ref |-> m]

\* the constraints mappings of an agent.yaml: each key given or left out
AgentConstraintsData ==
    {al @@ dn @@ net @@ oo @@ oj :
        al \in {("allowed_tools" :> l) : l \in ToolLists},
        dn \in {("denied_tools" :> l) : l \in ToolLists \ {<<"x", "y">>}},
        net \in {EmptyMap, "requires_network" :> TRUE, "requires_network" :> FALSE},
        oo \in {EmptyMap, "opt_out_collection_constraints" :> TRUE},
        oj \in {EmptyMap} \cup {("opt_out_justification" :> j) : j \in {None, Some(""), Some("why")}}}
\* the constraints mappings of a collection's shared context
SharedConstraintsData ==
    {al @@ dn @@ net :
        al \in {("allowed_tools" :> l) : l \in ToolLists},
        dn \in {("denied_tools" :> l) : l \in ToolLists \ {<<"x", "y">>}},
        net \in {EmptyMap, "requires_network" :> TRUE, "requires_network" :> FALSE}}

CollectionPaths == PowerPaths \cup SharedLocations
OneToolPowers(p) ==
    (IF p = "./p2" THEN {MissingDir} ELSE {})
    \cup {Power(<<>>, <<ToolsFile([tools |-> <<ToolDict(p, n)>>])>>) : n \in ToolNames}
AgentPowerItems == {StrRef(p) : p \in PowerPaths} \cup {DictRef("./p1", {}, EmptyMap, EmptyMap)}

\* agents and shared constraints of every shape, one power
InitConstraints ==
    /\ agent_yaml \in {[powers |-> <<StrRef("./p1")>>, constraints |-> c] :
                          c \in AgentConstraintsData}
    /\ \/ /\ heap = EmptyMap
          /\ shared_context = [powers |-> <<>>, constraints |-> None]
       \/ \E d \in SharedConstraintsData :
             /\ heap = (1 :> AgentConstraints(d).value)
             /\ shared_context = [powers |-> <<>>, constraints |-> Some(1)]
    /\ fs = [p \in CollectionPaths |-> SoundPower(p)]

\* shared powers and own powers of every order, no constraints
InitSharedPowers ==
    /\ fs \in [CollectionPaths -> UNION {OneToolPowers(p) : p \in CollectionPaths}]
    /\ \A p \in CollectionPaths : fs[p] \in OneToolPowers(p)
    /\ agent_yaml \in {[powers |-> l] : l \in ShortLists(AgentPowerItems)}
    /\ heap = EmptyMap
    /\ shared_context \in {[powers |-> l, constraints |-> None] :
                              l \in ShortLists(SharedPowerPaths)}

InitCollection ==
    /\ InitConstraints \/ InitSharedPowers
    /\ agent_spec = NoValue /\ merged_spec = NoValue
    /\ prompt = "ok"
    /\ powers = <<>>
    /\ pc = "idle"
    /\ idx = 0
    /\ acc = EmptyMerge
    /\ raised = "none"
    /\ merged = NoValue
    /\ kiro_json = NoValue
    /\ NoRouter /\ NoConcurrent /\ NoExecutor /\ NoHarness

\* exporter.py line 112: load_agent_spec(agent_dir)
LoadAgentSpec ==
    /\ pc = "idle"
    /\ LET r == load_agent_spec(heap, agent_yaml)
       IN  /\ raised' = r.raised
           /\ heap' = r.heap
           /\ agent_spec' = r.ref
           /\ pc' = IF r.raised = "none" THEN "loaded" ELSE "failed"
    /\ UNCHANGED <<fs, prompt, powers, idx, acc, merged, kiro_json>>
    /\ UNCHANGED <<agent_yaml, shared_context, merged_spec, routerVars, concurrentVars, executorVars, harnessVars>>

\* exporter.py line 115: _merge_shared_context(agent_spec, spec.shared_context, ...)
MergeSharedContext ==
    /\ pc = "loaded"
    /\ LET c == heap[heap[agent_spec].constraints]
           sc == IF shared_context.constraints.some
                 THEN heap[shared_context.constraints.value]
                 ELSE c
       IN  \E merged_allowed \in Orderings(MergedAllowed(c, sc)) :
           \E merged_denied \in Orderings(MergedDenied(c, sc)) :
               LET r == merge_shared_context(heap, agent_spec, shared_context,
                                             merged_allowed, merged_denied)
               IN  heap' = r.heap /\ merged_spec' = r.ref
    /\ pc' = "merged"
    /\ UNCHANGED <<fs, prompt, powers, idx, acc, raised, merged, kiro_json>>
    /\ UNCHANGED <<agent_yaml, shared_context, agent_spec, routerVars, concurrentVars, executorVars, harnessVars>>

\* exporter.py lines 348-368: the metadata is computed from the constraints
\* of the spec that is exported and from nothing else
build_constraint_metadata(constraints) ==
    [collection_constraints_applied |-> ~constraints.opt_out_collection_constraints,
     opt_out |-> constraints.opt_out_collection_constraints,
     opt_out_justification |-> constraints.opt_out_justification,
     final_allowed_tools |-> constraints.allowed_tools,
     final_denied_tools |-> constraints.denied_tools,
     network_access |->
        [agent_requested |-> constraints.requires_network,
         final_resolution |-> constraints.requires_network,
         resolution_reason |-> IF constraints.opt_out_collection_constraints
                               THEN "Agent setting"
                               ELSE "Collection policy applied"]]

\* exporter.py lines 118-122: export_agent_to_kiro_json(agent_dir, merged_spec),
\* every exception turned into ExportError; the returned dict has the
\* constraint metadata of the merged spec (line 77)
ExportMergedAgent ==
    /\ pc = "merged"
    /\ \E r \in {export_agent_to_kiro_json(fs, prompt, heap[merged_spec].powers)} :
       LET constraints == heap[heap[merged_spec].constraints]
       IN  /\ raised' = IF r.raised = "none" THEN "none" ELSE "ExportError"
           /\ kiro_json' =
                 IF r.raised = "none"
                 THEN [prompt |-> r.value.prompt,
                       tools |-> r.value.tools,
                       mcpServers |-> r.value.mcpServers,
                       source_powers |-> r.value.source_powers,
                       collision_resolution |-> r.value.collision_resolution,
                       constraint_resolution |-> build_constraint_metadata(constraints)]
                 ELSE r.value
           /\ acc' = r.locals
           /\ idx' = r.done
    /\ powers' = heap[merged_spec].powers
    /\ pc' = "export"
    /\ UNCHANGED <<fs, prompt, merged, collectionVars, routerVars, concurrentVars, executorVars, harnessVars>>

NextCollection == LoadAgentSpec \/ MergeSharedContext \/ ExportMergedAgent

SpecCollection == InitCollection /\ [][NextCollection]_vars

----------------------------------------------------------------------------
(* Vocabulary of the collection claims                                      *)

\* _merge_shared_context has returned
SharedMerged == pc \in {"merged", "export"}
\* what the agent declared in agent.yaml, with the defaults of the model
DeclaredConstraints == Get(agent_yaml, "constraints", EmptyMap)
DeclaredAllowed == Get(DeclaredConstraints, "allowed_tools", <<>>)
DeclaredDenied == Get(DeclaredConstraints, "denied_tools", <<>>)
DeclaredNetwork == Get(DeclaredConstraints, "requires_network", FALSE)
OptedOut == Get(DeclaredConstraints, "opt_out_collection_constraints", FALSE)
\* the constraints of the returned AgentSpec and of the shared context
MergedConstraints == heap[heap[merged_spec].constraints]
HasSharedConstraints == shared_context.constraints # None
SharedConstraints == heap[shared_context.constraints.value]
SharedAllowed == IF HasSharedConstraints THEN SharedConstraints.allowed_tools ELSE <<>>
SharedDenied == IF HasSharedConstraints THEN SharedConstraints.denied_tools ELSE <<>>
NoDuplicates(seq) == Cardinality(Range(seq)) = Len(seq)

(* C11: for an agent that has not opted out, the merged allowed_tools is    *)
(* the set intersection of the agent's and the shared allowed_tools when    *)
(* the shared list is non-empty and the agent's own list when it is empty;  *)
(* the merged denied_tools is the set union of the agent's and the shared   *)
(* denied_tools when the shared list is non-empty.                          *)
C11_AllowedIntersectDeniedUnion ==
    (SharedMerged /\ ~OptedOut) =>
        /\ SharedAllowed # <<>> =>
               /\ Range(MergedConstraints.allowed_tools)
                      = Range(DeclaredAllowed) \cap Range(SharedAllowed)
               /\ NoDuplicates(MergedConstraints.allowed_tools)
        /\ SharedAllowed = <<>> => MergedConstraints.allowed_tools = DeclaredAllowed
        /\ SharedDenied # <<>> =>
               /\ Range(MergedConstraints.denied_tools)
                      = Range(DeclaredDenied) \cup Range(SharedDenied)
               /\ NoDuplicates(MergedConstraints.denied_tools)

\* the agent allows x and y, the collection allows y only and denies x:
\* the merged agent allows y and denies x
C11_Witness ==
    /\ SharedMerged /\ ~OptedOut
    /\ DeclaredAllowed = <<"x", "y">> /\ SharedAllowed = <<"y">>
    /\ DeclaredDenied = <<>> /\ SharedDenied = <<"x">>
    /\ MergedConstraints.allowed_tools = <<"y">>
    /\ MergedConstraints.denied_tools = <<"x">>

(* C12: for an agent with opt_out_collection_constraints = true, the        *)
(* returned spec has allowed_tools, denied_tools and requires_network       *)
(* exactly as the agent declared them, whatever the shared constraints.     *)
C12_OptOutKeepsConstraints ==
    (SharedMerged /\ OptedOut) =>
        /\ MergedConstraints.allowed_tools = DeclaredAllowed
        /\ MergedConstraints.denied_tools = DeclaredDenied
        /\ MergedConstraints.requires_network = Some(DeclaredNetwork)

\* an agent that opted out, under shared constraints that would have
\* changed all three fields
C12_Witness ==
    /\ SharedMerged /\ OptedOut /\ HasSharedConstraints
    /\ DeclaredAllowed = <<"x", "y">> /\ SharedAllowed = <<"y">>
    /\ DeclaredDenied = <<>> /\ SharedDenied = <<"x">>
    /\ DeclaredNetwork /\ SharedConstraints.requires_network = Some(FALSE)
    /\ MergedConstraints.allowed_tools = <<"x", "y">>

(* C13: no loaded AgentSpec has opt_out_collection_constraints = true with  *)
(* an empty opt_out_justification (left out, null or the empty string):     *)
(* loading such an agent.yaml fails.                                        *)
C13_OptOutNeedsJustification ==
    pc \in {"loaded", "merged", "export"} =>
        LET c == heap[heap[agent_spec].constraints]
        IN  c.opt_out_collection_constraints => Truthy(c.opt_out_justification)

(* C14: for an agent that has not opted out, the merged requires_network is *)
(* the collection's flag when the shared constraints give one, and the      *)
(* agent's own flag when the shared constraints leave it out.               *)
C14_NetworkFlagOnlyWhenSpecified ==
    (SharedMerged /\ ~OptedOut) =>
        IF HasSharedConstraints /\ "requires_network" \in SharedConstraints.model_fields_set
        THEN MergedConstraints.requires_network = SharedConstraints.requires_network
        ELSE MergedConstraints.requires_network = Some(DeclaredNetwork)

(* C15: _merge_shared_context never changes its inputs: every object that  *)
(* existed before the call (the agent spec, its constraints, the shared     *)
(* constraints) is unchanged after it and so is the shared context; the     *)
(* returned spec and its constraints are objects that did not exist before. *)
C15_InputsNotMutated ==
    [][(pc = "loaded" /\ pc' = "merged") =>
           /\ \A id \in DOMAIN heap : id \in DOMAIN heap' /\ heap'[id] = heap[id]
           /\ shared_context' = shared_context
           /\ agent_spec' = agent_spec
           /\ merged_spec' \notin DOMAIN heap
           /\ heap'[merged_spec'].constraints \notin DOMAIN heap]_vars

\* the call changed the constraints and the powers of the spec it returned,
\* and the agent spec still has what the agent declared
C15_Witness ==
    /\ pc = "merged"
    /\ MergedConstraints.allowed_tools # DeclaredAllowed
    /\ MergedConstraints.requires_network # Some(DeclaredNetwork)
    /\ heap[heap[agent_spec].constraints].allowed_tools = DeclaredAllowed
    /\ heap[heap[agent_spec].constraints].requires_network = Some(DeclaredNetwork)

(* C16: the power list of the merged spec is the collection's shared        *)
(* powers, each rewritten to ../shared/powers/<name> and in collection      *)
(* order, followed by the agent's own references in declared order; when    *)
(* the export completes and a shared power and an own power declare the     *)
(* same tool, the one merged tool of that name is the shared power's and    *)
(* the own power is recorded as the loser of a collision.                   *)
SharedCount == Len(shared_context.powers)

----------------------------------------------------------------------------
(* The router (router.py): score_power and select_powers.  A Python string *)
(* is the sequence of its characters.                                       *)

\* str.lower() on the characters of the model
LowerChar(c) ==
    CASE c = "D" -> "d"
      [] c = "A" -> "a"
      [] c = "N" -> "n"
      [] OTHER -> c
Lower(text) == [i \in 1..Len(text) |-> LowerChar(text[i])]

\* x in y, for strings
IsSubstring(x, y) ==
    \E i \in 0..(Len(y) - Len(x)) : SubSeq(y, i + 1, i + Len(x)) = x

\* difflib.SequenceMatcher without junk: the longest block a[i:i+k] =
\* b[j:j+k] inside a[alo:ahi], b[blo:bhi], the earliest in a and then in b
RECURSIVE CommonPrefix(_, _, _, _, _, _)
CommonPrefix(a, b, i, j, ahi, bhi) ==
    IF i < ahi /\ j < bhi /\ a[i + 1] = b[j + 1]
    THEN 1 + CommonPrefix(a, b, i + 1, j + 1, ahi, bhi)
    ELSE 0

find_longest_match(a, b, alo, ahi, blo, bhi) ==
    LET Cands == (alo..(ahi - 1)) \X (blo..(bhi - 1))
        K(c) == CommonPrefix(a, b, c[1], c[2], ahi, bhi)
        Before(c, d) == c[1] < d[1] \/ (c[1] = d[1] /\ c[2] <= d[2])
        best == CHOOSE c \in Cands :
                    \A d \in Cands : K(c) > K(d) \/ (K(c) = K(d) /\ Before(c, d))
    IN  IF Cands = {} THEN [a |-> alo, b |-> blo, size |-> 0]
        ELSE IF K(best) = 0 THEN [a |-> alo, b |-> blo, size |-> 0]
        ELSE [a |-> best[1], b |-> best[2], size |-> K(best)]

\* the total size of get_matching_blocks()
RECURSIVE MatchingSize(_, _, _, _, _, _)
MatchingSize(a, b, alo, ahi, blo, bhi) ==
    LET m == find_longest_match(a, b, alo, ahi, blo, bhi)
    IN  IF m.size = 0 THEN 0
        ELSE m.size + MatchingSize(a, b, alo, m.a, blo, m.b)
                    + MatchingSize(a, b, m.a + m.size, ahi, m.b + m.size, bhi)

\* a float that is a ratio of two naturals, kept as the two naturals
Ratio(n, d) == [num |-> n, den |-> d]
\* lines 19-21: SequenceMatcher(None, text1.lower(), text2.lower()).ratio()
calculate_similarity(text1, text2) ==
    LET a == Lower(text1)
        b == Lower(text2)
    IN  IF Len(a) + Len(b) = 0 THEN Ratio(1, 1)
        ELSE Ratio(2 * MatchingSize(a, b, 0, Len(a), 0, Len(b)), Len(a) + Len(b))

\* r > t/10, int(r * k) and f"{r:.2f}" (as hundredths, ties to even) of a ratio
Above(r, tenths) == 10 * r.num > tenths * r.den
IntTimes(r, k) == (k * r.num) \div r.den
Hundredths(r) ==
    LET q == (100 * r.num) \div r.den
        rem == (100 * r.num) % r.den
    IN  IF 2 * rem > r.den THEN q + 1
        ELSE IF 2 * rem = r.den THEN q + (q % 2)
        ELSE q

\* lines 24-39: the words of text.lower() longer than two characters that
\* are no stop words ("and" is the stop word the alphabet can spell)
IsAlnum(c) == c # " "
StopWords == {<<"a">>, <<"a", "n">>, <<"a", "n", "d">>}
extract_keywords(text) ==
    LET t == Lower(text)
        IsWord(i, j) ==
            /\ i <= j
            /\ \A k \in i..j : IsAlnum(t[k])
            /\ (i = 1 \/ ~IsAlnum(t[i - 1]))
            /\ (j = Len(t) \/ ~IsAlnum(t[j + 1]))
        words == {SubSeq(t, w[1], w[2]) :
                     w \in {x \in (1..Len(t)) \X (1..Len(t)) : IsWord(x[1], x[2])}}
    IN  {w \in words : Len(w) > 2 /\ w \notin StopWords}

\* lines 42-51: Jaccard similarity of two keyword sets
score_keyword_overlap(prompt_keywords, target_keywords) ==
    IF prompt_keywords = {} \/ target_keywords = {} THEN Ratio(0, 1)
    ELSE Ratio(Cardinality(prompt_keywords \cap target_keywords),
               Cardinality(prompt_keywords \cup target_keywords))

\* fnmatch.fnmatch(name, pattern) for patterns of literals, ? and *
RECURSIVE fnmatch(_, _)
fnmatch(name, pattern) ==
    IF Len(pattern) = 0 THEN Len(name) = 0
    ELSE IF Head(pattern) = "*"
         THEN \/ fnmatch(name, Tail(pattern))
              \/ Len(name) > 0 /\ fnmatch(Tail(name), pattern)
    ELSE /\ Len(name) > 0
         /\ Head(pattern) = "?" \/ Head(pattern) = Head(name)
         /\ fnmatch(Tail(name), Tail(pattern))

\* the sum of the scores and the reasons of the parts, in order
RECURSIVE Accumulate(_, _)
Accumulate(parts, i) ==
    IF i > Len(parts) THEN [score |-> 0, reasons |-> <<>>]
    ELSE LET rest == Accumulate(parts, i + 1)
         IN  [score |-> parts[i].score + rest.score,
              reasons |-> parts[i].reasons \o rest.reasons]
NoPoints == [score |-> 0, reasons |-> <<>>]

\* ScorePhrase comparing the phrase and the prompt_text as they are written
ScorePhrase_CaseSensitive(phrase, prompt_text) ==
    IF IsSubstring(phrase, prompt_text)
    THEN [score |-> 10, reasons |-> <<[kind |-> "exact_phrase", text |-> phrase]>>]
    ELSE NoPoints

\* lines 64-75: one trigger phrase
ScorePhrase(phrase, prompt_text) ==
    LET phrase_lower == Lower(phrase)
        prompt_lower == Lower(prompt_text)
    IN  IF IsSubstring(phrase_lower, prompt_lower)
        THEN [score |-> 10, reasons |-> <<[kind |-> "exact_phrase", text |-> phrase]>>]
        ELSE LET similarity == calculate_similarity(phrase_lower, prompt_lower)
             IN  IF Above(similarity, 6)
                 THEN [score |-> IntTimes(similarity, 5),
                       reasons |-> <<[kind |-> "fuzzy_phrase", text |-> phrase,
                                      value |-> Hundredths(similarity)]>>]
                 ELSE NoPoints

\* lines 78-90: one trigger domain
ScoreDomain(domain, prompt_text) ==
    IF IsSubstring(Lower(domain), Lower(prompt_text))
    THEN [score |-> 5, reasons |-> <<[kind |-> "exact_domain", text |-> domain]>>]
    ELSE LET overlap_score == score_keyword_overlap(extract_keywords(prompt_text),
                                                    extract_keywords(domain))
         IN  IF Above(overlap_score, 3)
             THEN [score |-> IntTimes(overlap_score, 3),
                   reasons |-> <<[kind |-> "keyword_domain", text |-> domain,
                                  value |-> Hundredths(overlap_score)]>>]
             ELSE NoPoints

\* lines 93-100: one file pattern, files being a non-empty list
ScoreFilePattern(pattern, files) ==
    LET Matches(f) == fnmatch(f, pattern)
        matched_files == SelectSeq(files, Matches)
    IN  IF Len(matched_files) > 0
        THEN [score |-> IF Len(matched_files) * 2 < 8 THEN Len(matched_files) * 2 ELSE 8,
              reasons |-> <<[kind |-> "files", text |-> pattern,
                             value |-> Len(matched_files)]>>]
        ELSE NoPoints

\* lines 103-109: the description against the prompt_text
ScoreDescription(spec, prompt_text) ==
    IF Len(spec.meta.description) = 0 THEN NoPoints
    ELSE LET desc_overlap == score_keyword_overlap(extract_keywords(prompt_text),
                                                   extract_keywords(spec.meta.description))
         IN  IF Above(desc_overlap, 2)
             THEN [score |-> IntTimes(desc_overlap, 4),
                   reasons |-> <<[kind |-> "semantic", name |-> spec.meta.name,
                                  value |-> Hundredths(desc_overlap)]>>]
             ELSE NoPoints

\* lines 112-119: the bonus for more than one kind of trigger
ScoreCompleteness(spec) ==
    LET trigger_completeness ==
            (IF Len(spec.triggers.phrases) > 0 THEN 1 ELSE 0)
            + (IF Len(spec.triggers.domains) > 0 THEN 1 ELSE 0)
            + (IF Len(spec.triggers.files) > 0 THEN 1 ELSE 0)
    IN  IF trigger_completeness > 1
        THEN [score |-> trigger_completeness,
              reasons |-> <<[kind |-> "completeness_bonus", value |-> trigger_completeness]>>]
        ELSE NoPoints

\* lines 54-121: files is None or Some(list of file names)
score_power(spec, prompt_text, files) ==
    LET phrases == Accumulate([i \in 1..Len(spec.triggers.phrases) |->
                                  ScorePhrase(spec.triggers.phrases[i], prompt_text)], 1)
        domains == Accumulate([i \in 1..Len(spec.triggers.domains) |->
                                  ScoreDomain(spec.triggers.domains[i], prompt_text)], 1)
        patterns == IF files # None /\ Len(files.value) > 0
                    THEN Accumulate([i \in 1..Len(spec.triggers.files) |->
                                        ScoreFilePattern(spec.triggers.files[i], files.value)], 1)
                    ELSE NoPoints
        total == Accumulate(<<phrases, domains, patterns, ScoreDescription(spec, prompt_text),
                              ScoreCompleteness(spec)>>, 1)
    IN  [name |-> spec.meta.name, score |-> total.score, reasons |-> total.reasons]

\* InsertRanked putting a match before the matches of the same score
InsertRanked_BeforeEqual(sorted, match) ==
    LET Higher(m) == m.score > match.score
        NotHigher(m) == ~Higher(m)
    IN  SelectSeq(sorted, Higher) \o <<match>> \o SelectSeq(sorted, NotHigher)

\* list.sort(key=score, reverse=True) is stable: a match goes behind the
\* sorted matches whose score is at least its own
InsertRanked(sorted, match) ==
    LET AtLeast(m) == m.score >= match.score
        Lower_(m) == ~AtLeast(m)
    IN  SelectSeq(sorted, AtLeast) \o <<match>> \o SelectSeq(sorted, Lower_)

RECURSIVE SortRanked(_, _)
SortRanked(ranked_list, n) ==
    IF n = 0 THEN <<>>
    ELSE InsertRanked(SortRanked(ranked_list, n - 1), ranked_list[n])

\* seq[:n] of Python
Slice(seq, n) ==
    IF n >= 0
    THEN SubSeq(seq, 1, IF n < Len(seq) THEN n ELSE Len(seq))
    ELSE SubSeq(seq, 1, IF Len(seq) + n > 0 THEN Len(seq) + n ELSE 0)

\* lines 124-147
select_powers(power_specs, prompt_text, files, min_score, max_results) ==
    LET matches == [i \in 1..Len(power_specs) |-> score_power(power_specs[i], prompt_text, files)]
        Enough(match) == match.score >= min_score
        filtered == SelectSeq(matches, Enough)
    IN  Slice(SortRanked(filtered, Len(filtered)), max_results)

----------------------------------------------------------------------------
(* Router inputs                                                            *)

Prompts == {<<>>, <<"d", "a", "n", " ", "d", "a", "d">>, <<"D", "a", "n">>}
PhraseLists == {<<>>, <<<<"D", "A", "N">>>>, <<<<"d", "n">>>>, <<<<"d", "a", "n">>, <<"d", "a", "d">>>>}
DomainLists == {<<>>, <<<<"d", "a", "n", " ", "n", "a", "d">>>>}
PatternLists == {<<>>, <<<<"d", "*">>>>}
Descriptions == {<<"d", "a", "n", " ", "d", "a", "d", " ", "a", "n", "d">>, <<"n", "a", "d", " ", "a", "d", "d", " ", "a", "n", "d">>}
FileLists == {None, Some(<<<<"d", "a">>, <<"a">>>>)}
\* min_score and max_results: the defaults, the exact-phrase score, a bound
\* above every score, and result limits below the number of specs
Limits == {<<1, 10>>, <<10, 2>>, <<11, 10>>, <<100, 10>>, <<1, 1>>, <<1, 0>>}
SpecNames == <<"p1", "p2">>

PowerSpecAt(i, shape) ==
    [meta |-> [name |-> SpecNames[i], description |-> shape[4]],
     triggers |-> [phrases |-> shape[1], domains |-> shape[2], files |-> shape[3]]]
SpecShapes == PhraseLists \X DomainLists \X PatternLists \X Descriptions
\* the lists of two specs have the first description in both specs
PairShapes == {shape \in SpecShapes : shape[4] = <<"d", "a", "n", " ", "d", "a", "d", " ", "a", "n", "d">>}
PowerSpecLists ==
    {<<>>}
    \cup {<<PowerSpecAt(1, a)>> : a \in SpecShapes}
    \cup {<<PowerSpecAt(1, a), PowerSpecAt(2, b)>> : a \in PairShapes, b \in PairShapes}

InitRouter ==
    /\ specs \in PowerSpecLists
    /\ query \in {[prompt |-> p, files |-> f, min_score |-> l[1], max_results |-> l[2]] :
                     p \in Prompts, f \in FileLists, l \in Limits}
    /\ ranked = NoValue
    /\ pc = "idle"
    /\ raised = "none"
    /\ fs = EmptyMap /\ prompt = "ok" /\ powers = <<>>
    /\ idx = 0 /\ acc = EmptyMerge /\ merged = NoValue /\ kiro_json = NoValue
    /\ NoCollection /\ NoConcurrent /\ NoExecutor /\ NoHarness

\* a call of select_powers; the second call has the arguments of the first
SelectPowers ==
    /\ pc \in {"idle", "selected"}
    /\ ranked' = select_powers(specs, query.prompt, query.files,
                               query.min_score, query.max_results)
    /\ pc' = IF pc = "idle" THEN "selected" ELSE "selected again"
    /\ UNCHANGED <<fs, prompt, powers, idx, acc, raised, merged, kiro_json>>
    /\ UNCHANGED <<specs, query, collectionVars, concurrentVars, executorVars, harnessVars>>

NextRouter == SelectPowers

SpecRouter == InitRouter /\ [][NextRouter]_vars

----------------------------------------------------------------------------
(* Vocabulary of the router claims                                          *)

Selected == pc \in {"selected", "selected again"}
\* two characters that are the same letter in either case
SameLetter(c, d) ==
    \/ c = d
    \/ <<c, d>> \in {<<"d", "D">>, <<"D", "d">>, <<"a", "A">>, <<"A", "a">>,
                     <<"n", "N">>, <<"N", "n">>}
ContainsIgnoringCase(phrase, text) ==
    \E i \in 0..(Len(text) - Len(phrase)) :
        \A k \in 1..Len(phrase) : SameLetter(phrase[k], text[i + k])
\* the match score_power gives for each spec of the call
RECURSIVE ScoresUpTo(_)
ScoresUpTo(n) ==
    IF n = 0 THEN <<>>
    ELSE Append(ScoresUpTo(n - 1), score_power(specs[n], query.prompt, query.files))
Scores == ScoresUpTo(Len(specs))

(* C17: when a trigger phrase of a spec is a case-insensitive substring of  *)
(* the prompt, score_power gives the spec a score of at least 10 and the    *)
(* reason exact_phrase:<phrase>; select_powers with min_score <= 10 and     *)
(* max_results >= the number of specs returns that match, and returns it    *)
(* first when the spec is the only one.                                     *)
C17_ExactPhraseScoresTen ==
    Selected =>
        \A i \in 1..Len(specs) :
            LET match == score_power(specs[i], query.prompt, query.files)
            IN  \A k \in 1..Len(specs[i].triggers.phrases) :
                    LET phrase == specs[i].triggers.phrases[k]
                    IN  ContainsIgnoringCase(phrase, query.prompt) =>
                            /\ match.score >= 10
                            /\ \E r \in 1..Len(match.reasons) :
                                  match.reasons[r] = [kind |-> "exact_phrase", text |-> phrase]
                            /\ (query.min_score <= 10 /\ query.max_results >= Len(specs)) =>
                                  /\ \E j \in 1..Len(ranked) : ranked[j] = match
                                  /\ Len(specs) = 1 => ranked[1].name = specs[i].meta.name

\* the prompt "Dan" and a second spec with the phrase "DAN": the spec was
\* returned with the exact-phrase reason
C17_Witness ==
    /\ Selected /\ Len(specs) = 2
    /\ query.prompt = <<"D", "a", "n">>
    /\ specs[2].triggers.phrases = << <<"D", "A", "N">> >>
    /\ query.min_score = 10
    /\ \E j \in 1..Len(ranked) :
          /\ ranked[j].name = "p2"
          /\ ranked[j].score >= 10
          /\ ranked[j].reasons[1] = [kind |-> "exact_phrase", text |-> <<"D", "A", "N">>]

(* C18: for max_results >= 0, select_powers returns the first max_results   *)
(* elements of the matches with score >= min_score put in descending order *)
(* of score, equal scores in input order; the result is empty when         *)
(* min_score exceeds every score, and a second call with the same inputs   *)
(* returns the same list.                                                  *)
Kept(scores) == {i \in DOMAIN scores : scores[i].score >= query.min_score}
Rank(scores, kept, i) ==
    1 + Cardinality({j \in kept : \/ scores[j].score > scores[i].score
                                  \/ scores[j].score = scores[i].score /\ j < i})

C18_FilterSortTruncate ==
    (Selected /\ query.max_results >= 0) =>
        LET scores == Scores
            kept == Kept(scores)
        IN  /\ Len(ranked) = IF Cardinality(kept) < query.max_results
                             THEN Cardinality(kept) ELSE query.max_results
            /\ \A i \in kept :
                   Rank(scores, kept, i) <= query.max_results =>
                       ranked[Rank(scores, kept, i)] = scores[i]
            /\ (\A i \in DOMAIN scores : scores[i].score < query.min_score) => ranked = <<>>

\* two different specs with the same score, returned in input order by the
\* second call
C18_Witness ==
    /\ pc = "selected again" /\ Len(specs) = 2
    /\ specs[1].triggers # specs[2].triggers
    /\ Len(ranked) = 2
    /\ ranked[1].score = ranked[2].score
    /\ ranked[1].name = "p1" /\ ranked[2].name = "p2"

----------------------------------------------------------------------------
(* Concurrent calls of _merge_power_resources.  The accumulators a call     *)
(* creates at its entry (lines 140-150) are an object in store; the frame   *)
(* of the call holds the identity of that object.  One step of a call is    *)
(* its entry, one iteration of its loop, or its return.                     *)

Callers == {1, 2}

\* the accumulators kept in one place for all the calls
NewLocals_Shared(st) == 1

\* lines 140-150: the dicts and lists are created by the call
NewLocals(st) == Cardinality(DOMAIN st) + 1

ConcurrentRefs ==
    {DictRef(p, {}, EmptyMap, EmptyMap) : p \in PowerPaths}
    \cup {DictRef("./p2", {}, "a" :> "b", EmptyMap)}
ConcurrentDirs ==
    {("./p1" :> Power(<<>>, <<ToolsFile([tools |-> <<ToolDict("./p1", "a")>>])>>))
     @@ ("./p2" :> Power(<<>>, <<ToolsFile([tools |-> <<ToolDict("./p2", n)>>])>>)) :
        n \in ToolNames}
IdleFrame(power_refs) ==
    [power_refs |-> power_refs, pc |-> "idle", idx |-> 0, locals |-> 0,
     raised |-> "none", result |-> NoValue]

InitConcurrent ==
    /\ fs \in ConcurrentDirs
    /\ calls \in {<<IdleFrame(l1), IdleFrame(l2)>> :
                     l1 \in RefLists(ConcurrentRefs), l2 \in RefLists(ConcurrentRefs)}
    /\ store = EmptyMap
    /\ pc = "idle"
    /\ raised = "none"
    /\ prompt = "ok" /\ powers = <<>>
    /\ idx = 0 /\ acc = EmptyMerge /\ merged = NoValue /\ kiro_json = NoValue
    /\ NoCollection /\ NoRouter /\ NoExecutor /\ NoHarness

UnchangedByCalls ==
    UNCHANGED <<fs, prompt, powers, pc, idx, acc, raised, merged, kiro_json,
                collectionVars, routerVars, executorVars, harnessVars>>

\* entry of a call: its accumulators are created empty
BeginCall ==
    \E c \in Callers :
        /\ calls[c].pc = "idle"
        /\ LET id == NewLocals(store)
           IN  /\ store' = (id :> EmptyMerge) @@ store
               /\ calls' = [calls EXCEPT ![c].pc = "loop", ![c].locals = id]
        /\ UnchangedByCalls

\* one iteration of the loop of a call (lines 152-221)
LoopCall ==
    \E c \in Callers :
        /\ calls[c].pc = "loop"
        /\ calls[c].idx < Len(calls[c].power_refs)
        /\ LET power_data == normalize_power_reference(calls[c].power_refs[calls[c].idx + 1])
           IN  IF ~Subscriptable(power_data)
               THEN /\ calls' = [calls EXCEPT ![c].pc = "done", ![c].raised = "TypeError"]
                    /\ UNCHANGED store
               ELSE /\ store' = [store EXCEPT ![calls[c].locals] =
                                     MergePower(@, fs, power_data.data)]
                    /\ calls' = [calls EXCEPT ![c].idx = @ + 1]
        /\ UnchangedByCalls

\* the return of a call (lines 223-228)
ReturnCall ==
    \E c \in Callers :
        /\ calls[c].pc = "loop"
        /\ calls[c].idx = Len(calls[c].power_refs)
        /\ calls' = [calls EXCEPT ![c].pc = "done",
                                  ![c].result = MergeResult(store[calls[c].locals])]
        /\ UNCHANGED store
        /\ UnchangedByCalls

NextConcurrent == BeginCall \/ LoopCall \/ ReturnCall

SpecConcurrent == InitConcurrent /\ [][NextConcurrent]_vars

(* C19: two merge calls whose steps interleave in any order each return    *)
(* what the call returns when run alone: the calls have different          *)
(* accumulators, at every moment the accumulators of a call (tool and      *)
(* server sources, collision lists, merged tools) are those the call alone *)
(* has after the same number of references, and the returned value is that *)
(* of the call alone.                                                      *)
C19_ConcurrentCallsIndependent ==
    /\ (calls[1].pc # "idle" /\ calls[2].pc # "idle") => calls[1].locals # calls[2].locals
    /\ \A c \in Callers :
          /\ calls[c].pc # "idle" =>
                 store[calls[c].locals]
                     = MergeRefs(EmptyMerge, fs, SubSeq(calls[c].power_refs, 1, calls[c].idx), 1).st
          /\ calls[c].pc = "done" =>
                 LET alone == merge_power_resources(fs, calls[c].power_refs)
                 IN  /\ calls[c].raised = alone.raised
                     /\ calls[c].result = alone.value

\* both calls returned, each with a collision of its own that the other
\* call does not have
C19_Witness ==
    /\ calls[1].pc = "done" /\ calls[2].pc = "done"
    /\ calls[1].power_refs # calls[2].power_refs
    /\ Len(calls[1].result.collision_metadata.tool_collisions) = 1
    /\ Len(calls[2].result.collision_metadata.tool_collisions) = 0
    /\ Len(calls[2].result.tools) = 2

----------------------------------------------------------------------------
(* C20: the merged tool list keeps declaration order: it is the list of    *)
(* the declared tools, in the order of the power references, then of each  *)
(* power's tools files, then of the tools inside a file, each under the    *)
(* name its reference gives it, with some of them left out; the returned   *)
(* source_powers are the references in their given order.                  *)
RECURSIVE IsSubsequence(_, _)
IsSubsequence(sub, full) ==
    IF Len(sub) = 0 THEN TRUE
    ELSE IF Len(full) = 0 THEN FALSE
    ELSE IF Head(sub) = Head(full) THEN IsSubsequence(Tail(sub), Tail(full))
    ELSE IsSubsequence(sub, Tail(full))

\* the tool entries of a tools file that are mappings, in file order
DictTools(f) ==
    LET IsDict(t) == t.isdict
    IN  IF f.loads /\ "tools" \in DOMAIN f.data THEN SelectSeq(f.data["tools"], IsDict) ELSE <<>>
\* a declared tool under the name reference i gives it
NamedBy(i, tool) ==
    IF Get(tool, "name", "") \in DOMAIN ToolAliases(i)
    THEN [tool EXCEPT !["name"] = ToolAliases(i)[tool["name"]]]
    ELSE tool
DeclaredOrder ==
    Flatten([i \in Refs |->
        IF ~Loads(i) THEN <<>>
        ELSE LET files == fs[RefPath(i)].tools_files
             IN  Flatten([k \in 1..Len(files) |->
                            [t \in 1..Len(DictTools(files[k])) |->
                                NamedBy(i, DictTools(files[k])[t].value)]])])

C20_DeclarationOrderKept ==
    Returned =>
        /\ IsSubsequence(OutTools, DeclaredOrder)
        /\ pc = "export" => kiro_json.source_powers = [i \in Refs |-> RefPath(i)]

\* two powers with two tools each, one of the four dropped as a collision:
\* the three merged tools are in declaration order
C20_Witness ==
    /\ Returned /\ Len(powers) = 2 /\ RefPath(1) # RefPath(2)
    /\ Len(DeclaredOrder) = 4
    /\ Len(OutTools) = 3
    /\ OutTools[1].impl = RefPath(1) /\ OutTools[2].impl = RefPath(1)
    /\ OutTools[1].name # OutTools[2].name
    /\ OutTools[3].impl = RefPath(2)
    /\ Len(OutCollisions.tool_collisions) = 1

----------------------------------------------------------------------------
(* The constraint metadata of an export                                    *)

(* C22: collection_constraints_applied is true exactly when the collection *)
(* declares shared constraints and the agent has not opted out; it is      *)
(* false for a collection without shared constraints, and the              *)
(* resolution_reason of network_access names the collection policy only    *)
(* when the shared constraints were merged.                                *)
C22_AppliedOnlyWhenMerged ==
    (pc = "export" /\ raised = "none") =>
        LET meta == kiro_json.constraint_resolution
            applied == HasSharedConstraints /\ ~OptedOut
        IN  /\ meta.collection_constraints_applied <=> applied
            /\ meta.network_access.resolution_reason = "Collection policy applied" => applied

----------------------------------------------------------------------------
(* The exported prompt                                                     *)

\* the steering files of reference i that can be read, in file order
SteeringRead(i) ==
    IF ~Loads(i) THEN <<>>
    ELSE LET IsReadable(f) == f.readable
         IN  SelectSeq(fs[RefPath(i)].steering_files, IsReadable)
\* each text of reference i after a separator
SeparatedBlocks(i) ==
    Flatten([k \in 1..Len(SteeringRead(i)) |-> <<Sep>> \o SteeringRead(i)[k].text])

(* C21: the exported prompt is the text of the prompt file followed by the *)
(* steering texts of the loaded powers in the order of the power           *)
(* references, each after a blank-line separator; when no steering file    *)
(* was read it is the text of the prompt file alone.                       *)
C21_PromptIsTextPlusSteering ==
    (pc = "export" /\ raised = "none") =>
        /\ kiro_json.prompt = PromptText \o Flatten([i \in Refs |-> SeparatedBlocks(i)])
        /\ (\A i \in Refs : SteeringRead(i) = <<>>) => kiro_json.prompt = PromptText

\* ./p2 referenced before ./p1, two files read from ./p2 and one from ./p1
C21_Witness ==
    /\ pc = "export" /\ raised = "none"
    /\ powers = <<StrRef("./p2"), StrRef("./p1")>>
    /\ kiro_json.prompt = <<"prompt", Sep, "p2 intro", "p2 rules", Sep, "p2 notes",
                            Sep, "p1 notes">>

----------------------------------------------------------------------------
(* The powers a collision names                                            *)

(* C23: every entry of tool_collisions and of server_collisions names two  *)
(* different powers, also when one power declares a name twice or is       *)
(* referenced twice.                                                       *)
C23_CollisionNamesTwoPowers ==
    Returned =>
        /\ \A k \in 1..Len(OutCollisions.tool_collisions) :
               OutCollisions.tool_collisions[k].powers[1] #
                   OutCollisions.tool_collisions[k].powers[2]
        /\ \A k \in 1..Len(OutCollisions.server_collisions) :
               OutCollisions.server_collisions[k].powers[1] #
                   OutCollisions.server_collisions[k].powers[2]

----------------------------------------------------------------------------
(* executor.py: PowerExecutor.execute                                       *)
(* The prompt is a sequence of characters.  What running kiro-cli does is   *)
(* an input of the call: the process exits with a return code, the binary   *)
(* is not found, the run exceeds the timeout, or the start fails with       *)
(* another OS error.                                                        *)

\* security.py lines 45-60: the exception validate_command_input raises.
\* Suspicious has the shell metacharacters of line 53 but the backquote, and
\* the newline for the control characters of line 55
Suspicious == {";", "&", "|", "$", "(", ")", "\n"}
validate_command_input(input_text) ==
    IF \A i \in 1..Len(input_text) : input_text[i] = " " THEN "ValueError"
    ELSE IF \E i \in 1..Len(input_text) : input_text[i] \in Suspicious THEN "ValueError"
    ELSE "none"

\* lines 48-62: the --trust-tools arguments
prepare_tools_context(context) ==
    IF context.allowed_tools # <<>> THEN <<"--trust-tools", context.allowed_tools>>
    ELSE IF context.denied_tools # <<>> THEN <<"--trust-tools", <<>>>>
    ELSE <<>>

\* lines 64-88, with the default wrap mode of the configuration
build_kiro_command(prompt_text, context) ==
    IF validate_command_input(prompt_text) # "none"
    THEN [raised |-> validate_command_input(prompt_text), command |-> <<>>]
    ELSE [raised |-> "none",
          command |-> <<"kiro-cli", "chat", "--no-interactive">>
                      \o prepare_tools_context(context) \o <<prompt_text>>]

\* lines 103-112: what of the context was loaded
TrackLoaded(context) ==
    (IF context.allowed_tools # <<>> THEN <<"allowed_tools_configured">> ELSE <<>>)
    \o (IF context.denied_tools # <<>> THEN <<"denied_tools_configured">> ELSE <<>>)
    \o (IF context.hooks_files # <<>> THEN <<"hooks_available">> ELSE <<>>)
    \o (IF context.tools_files # <<>> THEN <<"tools_available">> ELSE <<>>)
    \o (IF context.steering_files # <<>> THEN <<"steering_loaded">> ELSE <<>>)

ExecutionResult(output, actions, success, error) ==
    [output |-> output, actions |-> actions, success |-> success, error |-> error]

\* lines 90-176 for a context whose steering files can be copied:
\* _prepare_steering_context returns an empty list, so steering_prepared is
\* never recorded
execute(prompt_text, context, process) ==
    LET actions == TrackLoaded(context)
        built == build_kiro_command(prompt_text, context)
    IN  IF built.raised # "none"
        THEN ExecutionResult("Execution error", Append(actions, "execution_error"),
                             FALSE, Some(built.raised))
        ELSE LET actions2 == Append(actions, "kiro_command_built")
             IN  CASE process.kind = "timeout" ->
                        ExecutionResult("Execution timed out", Append(actions2, "kiro_timeout"),
                                        FALSE, Some("timeout"))
                   [] process.kind = "not found" ->
                        ExecutionResult("kiro-cli not found", Append(actions2, "kiro_not_found"),
                                        FALSE, Some("kiro_not_found"))
                   [] process.kind = "os error" ->
                        ExecutionResult("Execution error", Append(actions2, "execution_error"),
                                        FALSE, Some("OSError"))
                   [] process.kind = "exit" /\ process.returncode = 0 ->
                        ExecutionResult(process.stdout, Append(actions2, "kiro_executed"),
                                        TRUE, None)
                   [] process.kind = "exit" /\ process.returncode # 0 ->
                        ExecutionResult("Execution failed", Append(actions2, "kiro_executed"),
                                        FALSE, Some(process.stderr))

ExecutorPrompts == {<<"H", "i">>, <<>>, <<" ">>, <<"a", ";", "b">>, <<"a", "\n", "b">>}
FileNameLists == {<<>>, <<"x">>}
PowerContexts ==
    [name : {"demo"}, steering_files : FileNameLists, tools_files : FileNameLists,
     hooks_files : FileNameLists, allowed_tools : FileNameLists,
     denied_tools : FileNameLists, requires_network : {None}]
Processes ==
    {[kind |-> k] : k \in {"timeout", "not found", "os error"}}
    \cup {[kind |-> "exit", returncode |-> rc, stdout |-> "out", stderr |-> "err"] :
             rc \in {0, 1}}

InitExecutor ==
    /\ exec_input \in [prompt : ExecutorPrompts, context : PowerContexts, process : Processes]
    /\ exec_result = NoValue
    /\ pc = "idle"
    /\ raised = "none"
    /\ fs = EmptyMap /\ prompt = "ok" /\ powers = <<>>
    /\ idx = 0 /\ acc = EmptyMerge /\ merged = NoValue /\ kiro_json = NoValue
    /\ NoCollection /\ NoRouter /\ NoConcurrent /\ NoHarness

\* a call of PowerExecutor.execute(prompt, context)
Execute ==
    /\ pc = "idle"
    /\ exec_result' = execute(exec_input.prompt, exec_input.context, exec_input.process)
    /\ pc' = "executed"
    /\ UNCHANGED <<fs, prompt, powers, idx, acc, raised, merged, kiro_json, exec_input>>
    /\ UNCHANGED <<collectionVars, routerVars, concurrentVars, harnessVars>>

NextExecutor == Execute

SpecExecutor == InitExecutor /\ [][NextExecutor]_vars

(* C24: a result of execute with success = true has kiro_executed in its   *)
(* actions, and a result with success = false has kiro_not_found or        *)
(* execution_error in its actions, for every prompt and context.           *)
C24_OutcomeClassified ==
    pc = "executed" =>
        /\ exec_result.success => "kiro_executed" \in Range(exec_result.actions)
        /\ ~exec_result.success =>
               \/ "kiro_not_found" \in Range(exec_result.actions)
               \/ "execution_error" \in Range(exec_result.actions)

----------------------------------------------------------------------------
(* harness.py: run_suite                                                    *)
(* Texts are sequences of characters.                                       *)

Newline == <<"\n">>

\* separator.join(items), on texts
RECURSIVE JoinText(_, _)
JoinText(separator, items) ==
    IF Len(items) = 0 THEN <<>>
    ELSE IF Len(items) = 1 THEN items[1]
    ELSE items[1] \o separator \o JoinText(separator, Tail(items))

\* ', '.join(items) or 'none'
ListOrNone(items) ==
    IF JoinText(<<",", " ">>, items) = <<>> THEN <<"n", "o", "n", "e">>
    ELSE JoinText(<<",", " ">>, items)

\* str(context.requires_network)
StrOfOptionalBool(v) ==
    IF ~v.some THEN <<"N", "o", "n", "e">> ELSE IF v.value THEN <<"T", "r", "u", "e">> ELSE <<"F", "a", "l", "s", "e">>

\* lines 50-64
build_output(case, context) ==
    IF ~context.some THEN case.prompt
    ELSE JoinText(Newline,
           <<<<"p", "o", "w", "e", "r", ":", " ">> \o context.value.name,
             <<"p", "r", "o", "m", "p", "t", ":", " ">> \o case.prompt,
             <<"s", "t", "e", "e", "r", "i", "n", "g", "_", "f", "i", "l", "e", "s", ":", " ">> \o ListOrNone(context.value.steering_files),
             <<"t", "o", "o", "l", "s", "_", "f", "i", "l", "e", "s", ":", " ">> \o ListOrNone(context.value.tools_files),
             <<"h", "o", "o", "k", "s", "_", "f", "i", "l", "e", "s", ":", " ">> \o ListOrNone(context.value.hooks_files),
             <<"a", "l", "l", "o", "w", "e", "d", "_", "t", "o", "o", "l", "s", ":", " ">> \o ListOrNone(context.value.allowed_tools),
             <<"d", "e", "n", "i", "e", "d", "_", "t", "o", "o", "l", "s", ":", " ">> \o ListOrNone(context.value.denied_tools),
             <<"r", "e", "q", "u", "i", "r", "e", "s", "_", "n", "e", "t", "w", "o", "r", "k", ":", " ">> \o StrOfOptionalBool(context.value.requires_network)>>)

\* str.strip() leaves nothing
Blank(text) == \A i \in 1..Len(text) : text[i] \in {" ", "\n"}

TestResult(name, status, message) == [name |-> name, status |-> status, message |-> message]

\* RunCase without the test of the prompt
RunCase_NoPromptCheck(case, context) ==
    IF case.expected = <<>>
    THEN TestResult(case.name, "fail", "Missing expected assertions")
    ELSE LET output == build_output(case, context)
             IsMissing(text) == ~IsSubstring(text, output)
             missing == SelectSeq(case.expected, IsMissing)
         IN  IF missing # <<>>
             THEN TestResult(case.name, "fail", <<"Missing expected text", missing>>)
             ELSE TestResult(case.name, "pass", "Assertions passed")

\* lines 70-87: the result of one case
RunCase(case, context) ==
    IF Blank(case.prompt)
    THEN TestResult(case.name, "fail", "Missing prompt")
    ELSE IF case.expected = <<>>
    THEN TestResult(case.name, "fail", "Missing expected assertions")
    ELSE LET output == build_output(case, context)
             IsMissing(text) == ~IsSubstring(text, output)
             missing == SelectSeq(case.expected, IsMissing)
         IN  IF missing # <<>>
             THEN TestResult(case.name, "fail", <<"Missing expected text", missing>>)
             ELSE TestResult(case.name, "pass", "Assertions passed")

\* lines 67-88: results is appended to once for every case
RECURSIVE RunCases(_, _, _, _)
RunCases(done, cases, context, i) ==
    IF i > Len(cases) THEN done
    ELSE RunCases(Append(done, RunCase(cases[i], context)), cases, context, i + 1)
run_suite(cases, context) == RunCases(<<>>, cases, context, 1)

CasePrompts == {<<>>, <<" ">>, <<"H", "i">>, <<"H", "o">>}
ExpectedLists ==
    {<<>>, <<<<"H">>>>, <<<<"i">>, <<"o">>>>, <<<<>>>>, <<<<"e", "m", "o">>>>}
CaseNames == <<"c1", "c2">>
CaseShapes == CasePrompts \X ExpectedLists
TestCaseAt(i, shape) == [name |-> CaseNames[i], prompt |-> shape[1], expected |-> shape[2]]
TestSuites ==
    {<<>>}
    \cup {<<TestCaseAt(1, a)>> : a \in CaseShapes}
    \cup {<<TestCaseAt(1, a), TestCaseAt(2, b)>> : a \in CaseShapes, b \in CaseShapes}
SuiteContexts ==
    {None,
     Some([name |-> <<"d", "e", "m", "o">>, steering_files |-> <<>>, tools_files |-> <<>>,
           hooks_files |-> <<>>, allowed_tools |-> <<>>, denied_tools |-> <<>>,
           requires_network |-> None]),
     Some([name |-> <<"d", "e", "m", "o">>, steering_files |-> <<<<"s">>, <<"t">>>>, tools_files |-> <<<<"o">>>>,
           hooks_files |-> <<>>, allowed_tools |-> <<<<"r">>>>, denied_tools |-> <<>>,
           requires_network |-> Some(FALSE)])}

----------------------------------------------------------------------------
(* harness.py: run_agent_tests and run_collection_tests                     *)
(* A test context is its list of results; the name of a result is its      *)
(* label and the text put after the label.  A yaml document is a dict (a    *)
(* function on its keys).                                                   *)

Result(label, text, passed) == [test |-> [label |-> label, of |-> text], passed |-> passed]
UnnamedScenario == <<"U", "n", "n", "a", "m", "e", "d">>

MissingFile == [exists |-> FALSE]
UnparsableFile == [exists |-> TRUE, parses |-> FALSE]
SuiteFile(scenarios) == [exists |-> TRUE, parses |-> TRUE, scenarios |-> scenarios]

\* lines 224-235: one result for a scenario of an agent
AgentScenarioResult(scenario) ==
    Result("Scenario", Get(scenario, "name", UnnamedScenario),
           "prompt" \in DOMAIN scenario /\ "expected_behaviors" \in DOMAIN scenario)

\* lines 314-332: one result for each call of a scenario's subagent_calls
SubagentResults(scenario, registered_agents) ==
    IF "subagent_calls" \notin DOMAIN scenario THEN <<>>
    ELSE [k \in 1..Len(scenario["subagent_calls"]) |->
            Result("Subagent Reference", Get(scenario["subagent_calls"][k], "agent", <<>>),
                   Get(scenario["subagent_calls"][k], "agent", <<>>) \in registered_agents)]

\* lines 298-332: the results of one multi-agent scenario
CollectionScenarioResults(scenario, registered_agents) ==
    <<Result("Multi-Agent Scenario", Get(scenario, "name", UnnamedScenario),
             /\ "description" \in DOMAIN scenario
             /\ \/ "expected_flow" \in DOMAIN scenario
                \/ "subagent_calls" \in DOMAIN scenario)>>
    \o SubagentResults(scenario, registered_agents)

\* lines 197-249: load_agent_spec raises for an agent.yaml that does not
\* load; a test file that is missing or does not parse gives a failed
\* "Test Suite" result
run_agent_tests(agent_dir) ==
    IF ~agent_dir.loads THEN [raised |-> "AgentSpecError", value |-> NoValue]
    ELSE [raised |-> "none",
          value |->
            <<Result("Agent Validation", <<>>, agent_dir.valid)>>
            \o (IF ~agent_dir.tests.exists \/ ~agent_dir.tests.parses
                THEN <<Result("Test Suite", <<>>, FALSE)>>
                ELSE [k \in 1..Len(agent_dir.tests.scenarios) |->
                        AgentScenarioResult(agent_dir.tests.scenarios[k])])]

\* models.py line 60: the pattern of AgentMeta.name
NameCharacters == {"d", "e", "v", "q", "a", "_", "-"}
\* models.py lines 59-67 and 155-158: the validation of AgentSpec(meta =
\* {name, ...}, identity = ..., powers = power_list)
AgentSpecInit(agent_name, power_list) ==
    IF \/ agent_name = <<>>
       \/ \E i \in 1..Len(agent_name) : agent_name[i] \notin NameCharacters
    THEN "ValidationError"
    ELSE IF Len(power_list) < 1 THEN "ValidationError"
    ELSE "none"

\* lines 274-290: the loop over spec.agents from agent i on; the context of
\* an agent is stored under its name
RECURSIVE TestAgents(_, _, _)
TestAgents(agent_contexts, agents, i) ==
    IF i > Len(agents) THEN [raised |-> "none", agent_contexts |-> agent_contexts]
    ELSE IF agents[i].dir.exists
    THEN LET r == run_agent_tests(agents[i].dir)
         IN  IF r.raised # "none"
             THEN [raised |-> r.raised, agent_contexts |-> agent_contexts]
             ELSE TestAgents(Put(agent_contexts, agents[i].name, r.value), agents, i + 1)
    ELSE IF AgentSpecInit(agents[i].name, <<>>) # "none"
    THEN [raised |-> AgentSpecInit(agents[i].name, <<>>), agent_contexts |-> agent_contexts]
    ELSE TestAgents(Put(agent_contexts, agents[i].name, <<Result("Agent Exists", <<>>, FALSE)>>),
                    agents, i + 1)

\* lines 252-346
run_collection_tests(dir) ==
    LET tested == TestAgents(EmptyMap, dir.agents, 1)
        registered_agents == {dir.agents[i].name : i \in 1..Len(dir.agents)}
    IN  IF tested.raised # "none" THEN [raised |-> tested.raised, value |-> NoValue]
        ELSE [raised |-> "none",
              value |->
                [agent_contexts |-> tested.agent_contexts,
                 test_results |->
                    <<Result("Collection Validation", <<>>, dir.valid)>>
                    \o (IF ~dir.tests.exists \/ ~dir.tests.parses
                        THEN <<Result("Collection Test Suite", <<>>, FALSE)>>
                        ELSE Flatten([k \in 1..Len(dir.tests.scenarios) |->
                                CollectionScenarioResults(dir.tests.scenarios[k],
                                                          registered_agents)]))]]

\* AgentTestContext.all_passed and CollectionTestContext.all_passed
AllPassed(test_results) == \A k \in 1..Len(test_results) : test_results[k].passed
CollectionAllPassed(ctx) ==
    /\ AllPassed(ctx.test_results)
    /\ \A n \in DOMAIN ctx.agent_contexts : AllPassed(ctx.agent_contexts[n])

AgentNames == <<<<"d", "e", "v">>, <<"q", "a">>>>
AgentScenarios ==
    {[name |-> <<"s">>, prompt |-> "p", expected_behaviors |-> <<>>], [name |-> <<"s">>]}
AgentTestFiles ==
    {MissingFile, UnparsableFile, SuiteFile(<<>>)} \cup {SuiteFile(<<sc>>) : sc \in AgentScenarios}
MissingAgentDir == [exists |-> FALSE]
AgentDirs ==
    {MissingAgentDir, [exists |-> TRUE, loads |-> FALSE]}
    \cup {[exists |-> TRUE, loads |-> TRUE, valid |-> v, tests |-> t] :
             v \in BOOLEAN, t \in AgentTestFiles}
CollectionScenarios ==
    {[name |-> <<"f">>, description |-> "d", expected_flow |-> <<>>],
     [name |-> <<"f">>],
     [description |-> "d", subagent_calls |-> <<[agent |-> <<"d", "e", "v">>], [agent |-> <<"x">>]>>]}
CollectionTestFiles ==
    {MissingFile, UnparsableFile} \cup {SuiteFile(<<sc>>) : sc \in CollectionScenarios}
CollectionDirs ==
    {[valid |-> v, tests |-> t, agents |-> <<[name |-> AgentNames[1], dir |-> d1]>>] :
        v \in BOOLEAN, t \in CollectionTestFiles, d1 \in AgentDirs}
    \cup {[valid |-> TRUE, tests |-> t,
           agents |-> <<[name |-> AgentNames[1], dir |-> d1], [name |-> AgentNames[2], dir |-> d2]>>] :
             t \in {MissingFile, SuiteFile(<<[name |-> <<"f">>, description |-> "d", expected_flow |-> <<>>]>>)},
             d1 \in AgentDirs, d2 \in AgentDirs}

InitSuite ==
    /\ suite \in TestSuites
    /\ suite_context \in SuiteContexts
    /\ collection = NoValue

InitCollectionTests ==
    /\ collection \in CollectionDirs
    /\ suite = <<>>
    /\ suite_context = NoValue

InitHarness ==
    /\ InitSuite \/ InitCollectionTests
    /\ results = NoValue
    /\ test_context = NoValue
    /\ pc = "idle"
    /\ raised = "none"
    /\ fs = EmptyMap /\ prompt = "ok" /\ powers = <<>>
    /\ idx = 0 /\ acc = EmptyMerge /\ merged = NoValue /\ kiro_json = NoValue
    /\ NoCollection /\ NoRouter /\ NoConcurrent /\ NoExecutor

\* a call of run_suite(suite, context)
RunSuite ==
    /\ pc = "idle"
    /\ collection = NoValue
    /\ results' = run_suite(suite, suite_context)
    /\ pc' = "suite"
    /\ UNCHANGED <<fs, prompt, powers, idx, acc, raised, merged, kiro_json>>
    /\ UNCHANGED <<suite, suite_context, collection, test_context>>
    /\ UNCHANGED <<collectionVars, routerVars, concurrentVars, executorVars>>

\* a call of run_collection_tests(collection_dir)
RunCollectionTests ==
    /\ pc = "idle"
    /\ collection # NoValue
    /\ LET r == run_collection_tests(collection)
       IN  raised' = r.raised /\ test_context' = r.value
    /\ pc' = "collection tests"
    /\ UNCHANGED <<fs, prompt, powers, idx, acc, merged, kiro_json>>
    /\ UNCHANGED <<suite, suite_context, results, collection>>
    /\ UNCHANGED <<collectionVars, routerVars, concurrentVars, executorVars>>

NextHarness == RunSuite \/ RunCollectionTests

SpecHarness == InitHarness /\ [][NextHarness]_vars

----------------------------------------------------------------------------
(* Claims about the harness                                                *)

\* the text occurs in the output, character by character
Occurs(text, output) ==
    \E start \in 0..(Len(output) - Len(text)) :
        \A k \in 1..Len(text) : output[start + k] = text[k]
\* the output the expected texts of case i are looked for in
BuiltOutput(i) ==
    IF suite_context = None THEN suite[i].prompt ELSE build_output(suite[i], suite_context)

(* C25: run_suite returns one result per test case, in case order; a case  *)
(* has status pass if and only if its prompt is not blank, its expected    *)
(* list is not empty and every expected text is a substring of the built   *)
(* output, which is the prompt itself when no context is given.            *)
C25_OneResultPerCase ==
    pc = "suite" =>
        /\ Len(results) = Len(suite)
        /\ \A i \in 1..Len(suite) :
              /\ results[i].name = suite[i].name
              /\ results[i].status = "pass" <=>
                    /\ \E k \in 1..Len(suite[i].prompt) : suite[i].prompt[k] \notin {" ", "\n"}
                    /\ Len(suite[i].expected) > 0
                    /\ \A k \in 1..Len(suite[i].expected) :
                          Occurs(suite[i].expected[k], BuiltOutput(i))

\* without a context, a first case that fails on a missing text and a
\* second case that passes on its own prompt
C25_Witness ==
    /\ pc = "suite" /\ suite_context = None
    /\ Len(suite) = 2
    /\ suite[1].prompt = <<"H", "i">> /\ suite[1].expected = <<<<"i">>, <<"o">>>>
    /\ suite[2].prompt = <<"H", "o">> /\ suite[2].expected = <<<<"H">>>>
    /\ results[1].status = "fail" /\ results[1].name = "c1"
    /\ results[2].status = "pass" /\ results[2].name = "c2"

\* the agents of the collection whose directory is missing
MissingAgents == {i \in 1..Len(collection.agents) : ~collection.agents[i].dir.exists}
\* every agent directory that exists has an agent.yaml that loads
ExistingAgentsLoad ==
    \A i \in 1..Len(collection.agents) :
        collection.agents[i].dir.exists => collection.agents[i].dir.loads

(* C28: when the directory of a collection agent is missing,               *)
(* run_collection_tests does not raise: it returns a context in which that *)
(* agent has a failed "Agent Exists" result, the other agents have their   *)
(* contexts, and all_passed is false.                                      *)
C28_MissingAgentIsAFailedResult ==
    (pc = "collection tests" /\ ExistingAgentsLoad /\ MissingAgents # {}) =>
        /\ raised = "none"
        /\ \A i \in 1..Len(collection.agents) :
              collection.agents[i].name \in DOMAIN test_context.agent_contexts
        /\ \A i \in MissingAgents :
              test_context.agent_contexts[collection.agents[i].name] =
                  <<Result("Agent Exists", <<>>, FALSE)>>
        /\ ~CollectionAllPassed(test_context)

----------------------------------------------------------------------------
(* The collision test and the alias                                        *)

(* C26: the collision test is made on the name the power declares: when    *)
(* the reference being merged declares N, N has a recorded source and the  *)
(* reference does not exclude N, the tool is dropped and recorded as a     *)
(* collision, also when the reference aliases N to a name that is not in   *)
(* use; a tool whose name the reference aliases is merged only when the    *)
(* declared name passed the collision test.                                *)
C26_Step(N) ==
    LET P == idx + 1
    IN  /\ (/\ DeclaredNames(P) = <<N>>
            /\ N \in DOMAIN acc.tool_sources /\ N \notin ExcludeTools(P)) =>
               /\ acc'.tools = acc.tools
               /\ acc'.tool_sources = acc.tool_sources
               /\ acc'.tool_collisions =
                      Append(acc.tool_collisions,
                             [name |-> N, powers |-> <<acc.tool_sources[N], RefPath(P)>>,
                              resolution |-> "unresolved",
                              final_source |-> acc.tool_sources[N]])
        /\ (/\ DeclaredNames(P) = <<N>> /\ N \in DOMAIN ToolAliases(P)
            /\ Len(acc'.tools) > Len(acc.tools)) =>
               N \notin DOMAIN acc.tool_sources \/ N \in ExcludeTools(P)

C26_CollisionTestBeforeAlias ==
    [][(pc = "loop" /\ idx < Len(powers) /\ idx' = idx + 1) =>
           \A N \in ToolNames : C26_Step(N)]_vars

\* the second reference aliased N to the unused name M, and its tool N was
\* dropped as a collision with the first power
C26_Witness ==
    /\ pc = "loop" /\ idx = 2
    /\ \E N \in ToolNames : \E M \in ToolNames \ {N} :
          /\ DeclaredNames(1) = <<N>> /\ ToolAliases(1) = EmptyMap /\ ExcludeTools(1) = {}
          /\ DeclaredNames(2) = <<N>> /\ Aliases(2, N, M) /\ ExcludeTools(2) = {}
          /\ RefPath(1) # RefPath(2)
          /\ acc.tools = <<[name |-> N, impl |-> RefPath(1)]>>
          /\ M \notin DOMAIN acc.tool_sources
          /\ Len(acc.tool_collisions) = 1
          /\ acc.tool_collisions[1].name = N
          /\ acc.tool_collisions[1].powers = <<RefPath(1), RefPath(2)>>

----------------------------------------------------------------------------
(* Excluded tools and the source map                                       *)

\* the names the tools of reference i end up with: the alias of the
\* declared name where the reference has one
FinalNames(i) ==
    {Get(ToolAliases(i), DeclaredNames(i)[t], DeclaredNames(i)[t]) :
        t \in 1..Len(DeclaredNames(i))}

\* every reference before B excludes N and one of them declares N; B
\* declares N once, and neither excludes nor aliases it; no tool of B is
\* aliased to N and no reference after B has a tool named N
C27_Case(N, B) ==
    /\ \A A \in 1..(B - 1) : N \in ExcludeTools(A)
    /\ \E A \in 1..(B - 1) : N \in Range(DeclaredNames(A))
    /\ Len(Named(ToolDeclsOf(B), N)) = 1
    /\ N \notin ExcludeTools(B) /\ N \notin DOMAIN ToolAliases(B)
    /\ \A M \in DOMAIN ToolAliases(B) : ToolAliases(B)[M] = N => M \notin Range(DeclaredNames(B))
    /\ \A K \in (B + 1)..Len(powers) :
          N \notin Range(DeclaredNames(K)) /\ N \notin FinalNames(K)

(* C27: a tool skipped through the exclude_tools of its own reference is   *)
(* not recorded as a source: when the earlier reference A excludes N and   *)
(* the later power B declares N without excluding it, the N of B is        *)
(* merged, the recorded source of N is B and there is no collision entry   *)
(* for N.                                                                  *)
C27_ExcludedToolLeavesNoSource ==
    (Returned /\ WellFormed) =>
        \A N \in ToolNames : \A B \in Refs :
            C27_Case(N, B) =>
                /\ Named(OutTools, N) = <<[name |-> N, impl |-> RefPath(B)]>>
                /\ acc.tool_sources[N] = RefPath(B)
                /\ Named(OutCollisions.tool_collisions, N) = <<>>

\* the first reference declares and excludes N, the second declares N and
\* is its only source
C27_Witness ==
    /\ Returned /\ Len(powers) = 2 /\ RefPath(1) # RefPath(2)
    /\ \E N \in ToolNames :
          /\ C27_Case(N, 2)
          /\ Named(OutTools, N) = <<[name |-> N, impl |-> RefPath(2)]>>
          /\ acc.tool_sources[N] = RefPath(2)
          /\ OutCollisions.tool_collisions = <<>>

----------------------------------------------------------------------------
(* Scores of a power that matched nothing                                  *)

\* the tests score_power makes for its phrase, domain, file and description
\* points: no phrase, domain or file pattern of the spec gets points or a
\* reason, and the description overlap is not above its threshold
MatchesNothing(spec, prompt_text, files) ==
    /\ \A k \in 1..Len(spec.triggers.phrases) :
          ScorePhrase(spec.triggers.phrases[k], prompt_text) = NoPoints
    /\ \A k \in 1..Len(spec.triggers.domains) :
          ScoreDomain(spec.triggers.domains[k], prompt_text) = NoPoints
    /\ (files.some /\ files.value # <<>>) =>
          \A k \in 1..Len(spec.triggers.files) :
              ScoreFilePattern(spec.triggers.files[k], files.value) = NoPoints
    /\ ScoreDescription(spec, prompt_text) = NoPoints

(* C29: score_power returns score 0 and no reasons when no trigger phrase, *)
(* no trigger domain and no file pattern matches and the description       *)
(* overlap is not above its threshold; select_powers with min_score >= 1   *)
(* then does not return the power.                                         *)
C29_NoMatchScoresZero ==
    Selected =>
        \A i \in 1..Len(specs) :
            MatchesNothing(specs[i], query.prompt, query.files) =>
                LET match == score_power(specs[i], query.prompt, query.files)
                IN  /\ match.score = 0
                    /\ match.reasons = <<>>
                    /\ query.min_score >= 1 =>
                          \A j \in 1..Len(ranked) : ranked[j].name # specs[i].meta.name

----------------------------------------------------------------------------
(* Steering content and exclude_steering_sections                          *)

(* C30: in every result of _merge_power_resources steering_collisions is   *)
(* empty and the steering blocks are the full texts of the steering files  *)
(* read, in reference and file order: exclude_steering_sections of a       *)
(* reference removes and changes nothing.                                  *)
C30_SteeringKeptWhole ==
    Returned =>
        /\ OutCollisions.steering_collisions = <<>>
        /\ acc.steering_content =
               Flatten([i \in Refs |->
                          [k \in 1..Len(SteeringRead(i)) |-> SteeringRead(i)[k].text]])

\* a reference that names the section "p1 rules" in
\* exclude_steering_sections, and the section is in the steering content
C30_Witness ==
    /\ pc = "merge" /\ raised = "none"
    /\ powers = <<SteeringRef("./p1", {"p1 rules", "p2 rules"})>>
    /\ merged.steering_content = << <<"p1 intro", "p1 rules">>, <<"p1 notes">> >>
    /\ merged.collision_metadata.steering_collisions = <<>>

====
